---- MODULE Spec2Model ----
(***************************************************************************)
(* A model of the manifest reconciliation engine of np_session             *)
(* (platform_json.py): the Entry hierarchy, the Files reconciler with its  *)
(* fix_data / fix_dict / write pass, the PlatformJson write path with its  *)
(* `.bak` backup, and the source locator's tie-break.                      *)
(***************************************************************************)
EXTENDS Integers, Sequences, FiniteSets, TLC

VARIABLES
    manifest,           \* contents of the platform json file on disk
    bak,                \* the `.bak` sibling: <<>> when absent, <<contents>> when present
    folder,             \* names of the files and directories in the session folder
    avail,              \* names for which a copy source exists (origin, np-exp, Z: drive, sd9)
    on_lims,            \* names already present on lims
    template,           \* the template's entries, in file order (descriptive names)
    on_z,               \* the platform json lives on the Z: drive (neuropixels_data)
    ext_fid,            \* foraging id from lims / mtrain / pkl ("" when none is found)
    entries_corrected,  \* Files.entries_corrected
    pc,                 \* position of the process inside Files.fix()
    ops,                \* number of operations started so far
    orig,               \* history: contents of the manifest in the initial state
    orig_bak,           \* history: the `.bak` in the initial state
    snap,               \* history: the manifest before each call that got past the backup step
    last,               \* history: the last operation, the manifest before it, whether it raised
    log,                \* history: one record per entry visited by the last fix_data()
    pass,               \* history: phases the current fix() has gone through, manifest at its start
    rpc,                \* two writers: position of each process in the write path
    rseen,              \* two writers: result of each process's backup.exists() check
    rbuf,               \* two writers: contents each process read from the manifest
    late_copy,          \* two writers, history: a backup copy ran after a manifest write began
    hits,               \* tie-break: the hits handed to return_single_hit, sorted by creation time
    result,             \* tie-break: index in hits of the hit returned (0 for None), -1 before the call
    search,             \* time window: the glob matches, the window, the kind of search and what it returned
    expansion,          \* template expansion: the template file, the session string and what came out
    locate,             \* Entry.origin: the class of the entry, what its searches found and what it returned
    transfer,           \* Entry.copy: the sources, the destination and the copies made
    pj,                 \* components.PlatformJson: the objects' fields, file_sync and the file on disk
    stage,              \* staging mode: the live session folder, the staging folder and where self.path points
    window,             \* experiment window: the timestamp fields and the start and end derived
    scope,              \* sync_disabled(): the blocks entered, file_sync and the position in the call
    probes,             \* probes inserted: the InsertionNotes, the letters assigned and the letters read
    summary,            \* summary mode: the lines printed or the frames built by the last summary
    recheck             \* correct_data read twice: the entry, the two answers and the files at each

vars == <<manifest, bak, folder, avail, on_lims, template, on_z, ext_fid,
          entries_corrected, pc, ops, orig, orig_bak, snap, last, log, pass,
          rpc, rseen, rbuf, late_copy, hits, result, search,
          expansion, locate, transfer, pj, stage, window, scope, probes, summary, recheck>>

filesVars == <<manifest, bak, folder, avail, on_lims, template, on_z, ext_fid,
               entries_corrected, pc, ops, orig, orig_bak, snap, last, log, pass>>
raceVars == <<rpc, rseen, rbuf, late_copy>>
hitVars == <<hits, result>>
moreVars == <<stage, window, scope, probes, summary, recheck>>
extVars == <<search, expansion, locate, transfer, pj, moreVars>>

-----------------------------------------------------------------------------
(* Bounds of the model *)

MaxTemplate == 2      \* entries in a template
MaxCurrent == 1       \* entries in the initial `files` dict of the manifest
MaxOps == 2           \* operations run one after the other by the process
MaxCalls == 2         \* two writers: calls of the write path by each process
MaxHits == 2          \* tie-break: hits handed to return_single_hit
MaxSize == 2          \* tie-break: size of a file
MaxDirFiles == 2      \* tie-break: files under a directory
MaxStr == 2           \* characters in a name pattern of a template
MaxKey == 1           \* characters in a descriptive name of a template
MaxSession == 2       \* characters in a session folder string
MaxFound == 2         \* hits of one search of an origin
MaxSources == 2       \* sources of one entry
MaxHash == 2          \* distinct contents of files of one size
MaxPjOps == 3         \* calls on the objects of components.PlatformJson
MaxList == 2          \* elements of a list-valued field
MaxVal == 2           \* distinct values under a key of a dict-valued field
MaxMatches == 2       \* time window: paths the glob matches
MaxTime == 4          \* time window: creation times run over 0..MaxTime (seconds)
MaxDepth == 2         \* sync_disabled(): blocks open inside one another
MaxSteps == 6         \* sync_disabled(): blocks entered and left by one object
MaxProbes == 3        \* probes inserted: probe letters, from A on

-----------------------------------------------------------------------------
(* Names *)

SessionFolder == "S"
ProbeLetters == {"A", "B", "C", "D", "E", "F"}

\* probe_group_map of EphysRaw
probe_group_map(p) == IF p \in {"A", "B", "C"} THEN "_probeABC" ELSE "_probeDEF"

RawLabel(p) == "ephys_raw_data_probe_" \o p
SortedLabel(p) == "ephys_raw_data_probe_" \o p \o "_sorted"
SortedDir(p) == SessionFolder \o "_probe" \o p \o "_sorted"

\* lims_upload_labels of the Entry subclasses
EphysSortedLabels == {SortedLabel(p) : p \in ProbeLetters}
EphysRawLabels == {RawLabel(p) : p \in ProbeLetters}
SyncLabels == {"synchronization_data"}
CamstimLabels == {"behavior_stimulus", "optogenetic_stimulus", "visual_stimulus", "replay_stimulus"}
VideoTrackingLabels == {"behavior_tracking", "eye_tracking", "face_tracking"}
VideoInfoLabels == {"beh_cam_json", "eye_cam_json", "face_cam_json"}
SurfaceImageLabels ==
    {img \o "_surface_image_" \o side :
        img \in {"pre_experiment", "brain", "pre_insertion", "post_insertion",
                 "post_stimulus", "post_experiment"},
        side \in {"left", "right"}}
NewscaleLogLabels == {"newstep_csv"}
NotebookLabels == {"area_classifications", "fiducial_image", "overlay_image",
                   "insertion_location_image", "isi_registration_coordinates",
                   "isi _registration_coordinates",
                   "probelocator_insertions_in_vasculature_image_space",
                   "probelocator_insertions_in_rig_image_space"}
SurgeryLabels == {"surgery_notes", "post_removal_surgery_image", "final_surgery_image"}

\* The class entry_from_dict picks for a descriptive name; "ValueError" when
\* no subclass lists it.
EntryClass(d) ==
    CASE d \in EphysSortedLabels -> "EphysSorted"
      [] d \in EphysRawLabels -> "EphysRaw"
      [] d \in SyncLabels -> "Sync"
      [] d \in CamstimLabels -> "Camstim"
      [] d \in VideoTrackingLabels -> "VideoTracking"
      [] d \in VideoInfoLabels -> "VideoInfo"
      [] d \in SurfaceImageLabels -> "SurfaceImage"
      [] d \in NewscaleLogLabels -> "NewscaleLog"
      [] d \in NotebookLabels -> "Notebook"
      [] d \in SurgeryLabels -> "Surgery"
      [] OTHER -> "ValueError"

\* A value of the `files` dict, {dir_or_file_type: dir_or_file_name}
Val(t, n) == [type |-> t, name |-> n]

\* The template after the session folder string is put in: the entries a
\* template of the model may hold.
TemplateFiles ==
    [d \in {"synchronization_data", RawLabel("A"), RawLabel("B"),
            "pre_experiment_surface_image_left", "surgery_notes",
            "isi_registration_coordinates", "isi _registration_coordinates",
            "sync_data"} |->
        CASE d = "synchronization_data" -> Val("filename", SessionFolder \o ".sync")
          [] d = "sync_data" -> Val("filename", SessionFolder \o "_sync.h5")
          [] d \in EphysRawLabels -> Val("directory_name", SessionFolder \o "_probeABC")
          [] d = "pre_experiment_surface_image_left" ->
                Val("filename", SessionFolder \o ".surface-image1-left.png")
          [] d = "surgery_notes" -> Val("filename", SessionFolder \o ".surgeryNotes.json")
          [] OTHER -> Val("filename", SessionFolder \o ".ISIregistration.npz")]

\* The descriptive names the templates of the model draw from: those of
\* TemplateFiles that some Entry subclass lists in its lims_upload_labels
TemplateLabels == {d \in DOMAIN TemplateFiles : EntryClass(d) # "ValueError"}
OtherName == "other.file"

\* A fixed order of the descriptive names, for the iteration order of a dict
LabelOrder ==
    <<"synchronization_data", RawLabel("A"), RawLabel("B"),
      "pre_experiment_surface_image_left", "surgery_notes",
      "isi_registration_coordinates", "isi _registration_coordinates",
      SortedLabel("A"), SortedLabel("B"), "unknown_label">>

Range(s) == {s[i] : i \in 1..Len(s)}

-----------------------------------------------------------------------------
(* The platform json: contents, and what PlatformJson reads from them *)

SessionProject == "session_project"

\* PlatformJson.experiment (the mouse is no pretest mouse)
experiment(c) ==
    IF "experiment" \in DOMAIN c.meta THEN c.meta["experiment"] ELSE SessionProject

\* contains_foraging_id: the foraging id in a string, "" for None
contains_foraging_id(s) == IF s \in {"fid_0", "fid_1", "fid_ext"} THEN s ELSE ""

\* PlatformJson.foraging_id_from_contents
foraging_id_from_contents(c) ==
    LET from_field == IF "foraging_id" \in DOMAIN c.meta THEN c.meta["foraging_id"] ELSE ""
    IN  IF from_field # "" /\ contains_foraging_id(from_field) # ""
        THEN contains_foraging_id(from_field)
        ELSE IF Len(c.foraging_id_list) = 1
             THEN contains_foraging_id(c.foraging_id_list[1])
             ELSE ""

\* PlatformJson.foraging_id
foraging_id(c) == IF ext_fid # "" THEN ext_fid ELSE foraging_id_from_contents(c)

\* PlatformJson.probe_letters_inserted (getter)
probe_letters_inserted(c) ==
    {p \in ProbeLetters :
        \/ p \notin DOMAIN c.notes
        \/ "FailedToInsert" \notin DOMAIN c.notes[p]
        \/ c.notes[p]["FailedToInsert"] = 0}

\* A backup step that copies over an existing `.bak`
backup_overwrites(b, c) == <<c>>

\* PlatformJson.backup: what the backup step leaves in `.bak`
backup(b, c) == IF b = <<>> THEN <<c>> ELSE b

\* PlatformJson.update(**kwargs): contents.update({k: v}) for a top-level key
\* of the model (`files` or a scalar key)
update(c, k, v) ==
    IF k = "files" THEN [c EXCEPT !.files = v]
    ELSE [c EXCEPT !.meta = (k :> v) @@ c.meta]

-----------------------------------------------------------------------------
(* Files: the dicts *)

dict_current == manifest.files

\* Files.dict_expected: the template entries with the session folder put in
dict_expected == [d \in Range(template) |-> TemplateFiles[d]]

dict_missing == [k \in DOMAIN dict_expected \ DOMAIN dict_current |-> dict_expected[k]]
dict_extra == [k \in DOMAIN dict_current \ DOMAIN dict_expected |-> dict_current[k]]
dict_incorrect ==
    [k \in {x \in DOMAIN dict_current \cap DOMAIN dict_expected :
                dict_current[x] # dict_expected[x]} |-> dict_current[k]]

\* Files.dict_expected_d2
dict_expected_d2 ==
    [k \in {SortedLabel(p) : p \in probe_letters_inserted(manifest)} |->
        Val("directory_name", SortedDir(CHOOSE p \in ProbeLetters : SortedLabel(p) = k))]

\* Files.dict_folder_d2
dict_folder_d2 ==
    [k \in {x \in DOMAIN dict_expected_d2 : dict_expected_d2[x].name \in folder} |->
        dict_expected_d2[k]]

\* Files.dict_expected_d0
dict_expected_d0 ==
    [k \in DOMAIN dict_expected \cap EphysRawLabels |-> dict_expected[k]]

\* Files.dict_folder_d0
dict_folder_d0 ==
    [k \in {x \in DOMAIN dict_expected_d0 : dict_expected_d0[x].name \in folder} |->
        dict_expected_d0[k]]

-----------------------------------------------------------------------------
(* Entry *)

\* Entry.__init__: the entry of a (descriptive name, value) item. A name the
\* template does not hold has the two spellings of the isi coordinates swapped.
Entry(d, v) ==
    [descriptive_name |->
        IF d \in DOMAIN dict_expected THEN d
        ELSE IF d = "isi_registration_coordinates" THEN "isi _registration_coordinates"
        ELSE IF d = "isi _registration_coordinates" THEN "isi_registration_coordinates"
        ELSE d,
     dir_or_file_type |-> v.type,
     dir_or_file_name |-> v.name]

\* Entry.__dict__
as_dict(e) == e.descriptive_name :> Val(e.dir_or_file_type, e.dir_or_file_name)

\* Files.entry_from_dict: the class of the entry built, "ValueError" if none
entry_class(e) == EntryClass(e.descriptive_name)

\* Entry.expected_data raises KeyError: the descriptive name (or its type key)
\* is not in dict_expected (dict_expected_d2 for EphysSorted)
expected_data_raises(e) ==
    LET d == IF entry_class(e) = "EphysSorted" THEN dict_expected_d2 ELSE dict_expected
    IN  \/ e.descriptive_name \notin DOMAIN d
        \/ d[e.descriptive_name].type # e.dir_or_file_type

\* Entry.expected_data: the name of the data in the session folder
expected_data(e) ==
    LET d == IF entry_class(e) = "EphysSorted" THEN dict_expected_d2 ELSE dict_expected
    IN  d[e.descriptive_name].name

\* Entry.origin is not None (the source search is abstracted by `avail`)
has_origin(e) == e.dir_or_file_name \in avail

\* Entry.sources is not empty
has_sources(e) == e.dir_or_file_name \in avail

\* A correct_data that trusts the origin for every class
correct_data_any_origin(e, F) ==
    IF on_z /\ has_origin(e) THEN TRUE
    ELSE expected_data(e) \in F

\* A correct_data that answers True once it has been read before
correct_data_once(e, F) ==
    IF recheck.kind # "none" THEN TRUE
    ELSE IF entry_class(e) = "EphysRaw" /\ on_z /\ has_origin(e) THEN TRUE
    ELSE expected_data(e) \in F

\* Entry.correct_data / EphysRaw.correct_data, with F the session folder
correct_data(e, F) ==
    IF entry_class(e) = "EphysRaw" /\ on_z /\ has_origin(e) THEN TRUE
    ELSE expected_data(e) \in F

\* A copy() that finds no source to copy from
copy_nothing(e, F) == [folder |-> F, raised |-> FALSE]

\* Entry.copy() as fix_data calls it, with no destination: the session folder
\* after it, and whether it raised.
copy(e, F) ==
    LET copied == IF has_sources(e) THEN F \cup {expected_data(e)} ELSE F
    IN  CASE entry_class(e) = "EphysRaw" /\ on_z -> [folder |-> F, raised |-> FALSE]
          [] entry_class(e) = "SurfaceImage" ->
                \* SurfaceImage.copy reads args[0] of an empty args: IndexError
                [folder |-> copied, raised |-> TRUE]
          [] entry_class(e) = "Surgery" /\ e.descriptive_name = "surgery_notes" ->
                \* Surgery.copy touches the notes file
                [folder |-> copied \cup {expected_data(e)}, raised |-> FALSE]
          [] OTHER -> [folder |-> copied, raised |-> FALSE]

-----------------------------------------------------------------------------
(* Files: the entry lists *)

RECURSIVE DictOf(_)
\* {k: v for e in entries for k, v in e.__dict__().items()}: a later entry
\* replaces an earlier one with the same descriptive name
DictOf(es) ==
    IF es = <<>> THEN <<>>
    ELSE as_dict(es[Len(es)]) @@ DictOf(SubSeq(es, 1, Len(es) - 1))

\* The entries of a dict, in the order of its keys
EntriesOf(d) ==
    LET keys == SelectSeq(LabelOrder, LAMBDA k : k \in DOMAIN d)
    IN  [i \in 1..Len(keys) |-> Entry(keys[i], d[keys[i]])]

\* Files.entries_expected
entries_expected == [i \in 1..Len(template) |-> Entry(template[i], TemplateFiles[template[i]])]

\* Files.entry_from_file over the session folder F: the first expected entry
\* named like a file of the folder, for every such file
entries_from_files(F) ==
    SelectSeq(entries_expected,
              LAMBDA e : /\ e.dir_or_file_name \in F
                         /\ e = entries_expected[
                                  CHOOSE i \in 1..Len(entries_expected) :
                                    /\ entries_expected[i].dir_or_file_name = e.dir_or_file_name
                                    /\ \A j \in 1..(i - 1) :
                                         entries_expected[j].dir_or_file_name # e.dir_or_file_name])

\* entry.correct_data raises KeyError (EphysRaw answers before it reads expected_data)
correct_data_raises(e) ==
    /\ ~(entry_class(e) = "EphysRaw" /\ on_z /\ has_origin(e))
    /\ expected_data_raises(e)

\* Files.entries_current raises: ValueError for an unrecognized entry of the
\* manifest, KeyError when correct_data of one of its entries does
entries_current_raises ==
    \E i \in 1..Len(EntriesOf(dict_current)) :
        LET e == EntriesOf(dict_current)[i]
        IN  entry_class(e) = "ValueError" \/ correct_data_raises(e)

\* Files.entries_current (when it does not raise)
entries_current ==
    SelectSeq(EntriesOf(dict_current) \o entries_from_files(folder),
              LAMBDA e : correct_data(e, folder))

\* Files.dict_corrected
dict_corrected == DictOf(entries_corrected)

\* Files.dict_folder
dict_folder == DictOf(entries_current)

\* Files.correct_data
files_correct_data ==
    \A i \in 1..Len(entries_expected) : correct_data(entries_expected[i], folder)

\* Files.correct_dict
files_correct_dict ==
    \/ \A k \in DOMAIN dict_expected : k \in DOMAIN dict_current
    \/ \A k \in DOMAIN dict_expected : k \in DOMAIN dict_corrected

\* Files.entries_missing raises
entries_missing_raises ==
    entries_corrected = <<>> /\ entries_expected # <<>> /\ entries_current_raises

\* Files.entries_missing (when it does not raise): Entry.__eq__ compares the
\* descriptive name and the file or directory name
entries_missing ==
    LET eq(a, b) == /\ a.descriptive_name = b.descriptive_name
                    /\ a.dir_or_file_name = b.dir_or_file_name
        within(e, es) == \E i \in 1..Len(es) : eq(e, es[i])
        known == IF entries_corrected # <<>> THEN entries_corrected ELSE entries_current
    IN  SelectSeq(entries_expected,
                  LAMBDA e : ~within(e, known) \/ ~correct_data(e, folder))

-----------------------------------------------------------------------------
(* Files: the reconciliation pass *)

RECURSIVE fix_data_loop(_, _, _, _)
\* The loop of Files.fix_data from entry i on: the session folder, the
\* entries appended to entries_corrected, one record per entry visited
\* (was it correct when visited, was copy() called, had the entry a source,
\* did copy() raise, what it added to the folder), and whether copy() raised.
fix_data_loop(i, F, corrected, visited) ==
    IF i > Len(entries_expected)
    THEN [folder |-> F, corrected |-> corrected, log |-> visited, raised |-> FALSE]
    ELSE LET e == entries_expected[i]
             r == copy(e, F)
         IN  IF correct_data(e, F)
             THEN fix_data_loop(i + 1, F, Append(corrected, e),
                                Append(visited, [entry |-> e, was_correct |-> TRUE, copies |-> 0,
                                                 sources |-> has_sources(e), raised |-> FALSE,
                                                 created |-> {}]))
             ELSE IF r.raised
             THEN [folder |-> r.folder, corrected |-> corrected,
                   log |-> Append(visited, [entry |-> e, was_correct |-> FALSE, copies |-> 1,
                                            sources |-> has_sources(e), raised |-> TRUE,
                                            created |-> r.folder \ F]),
                   raised |-> TRUE]
             ELSE fix_data_loop(i + 1, r.folder,
                                IF correct_data(e, r.folder) THEN Append(corrected, e)
                                ELSE corrected,
                                Append(visited, [entry |-> e, was_correct |-> FALSE, copies |-> 1,
                                                 sources |-> has_sources(e), raised |-> FALSE,
                                                 created |-> r.folder \ F]))

\* Files.entries_expected raises ValueError: entry_from_dict finds no
\* subclass for a descriptive name of the template
entries_expected_raises ==
    \E i \in 1..Len(template) : EntryClass(template[i]) = "ValueError"

\* Files.fix_data (MANUAL_MODE is False: no retry loop)
fix_data ==
    IF entries_expected_raises
    THEN [folder |-> folder, corrected |-> <<>>, log |-> <<>>, raised |-> TRUE]
    ELSE fix_data_loop(1, folder, <<>>, <<>>)

\* Files.fix_dict raises ValueError: an extra entry of no recognized type
fix_dict_raises ==
    \E i \in 1..Len(EntriesOf(dict_extra)) :
        entry_class(EntriesOf(dict_extra)[i]) = "ValueError"

\* Files.fix_dict: the extra entries kept, those whose data exists
fix_dict ==
    SelectSeq(EntriesOf(dict_extra), LAMBDA e : e.dir_or_file_name \in folder)

\* A gate that looks at the dict only
fix_gate_dict_only == files_correct_dict

\* The gate of Files.fix before write()
fix_gate == files_correct_data /\ files_correct_dict

\* Files.write raises after the backup step: FileNotFoundError for a files
\* argument naming absent data, or what dict_folder raises
write_raises(files) ==
    IF files # <<>>
    THEN \E k \in DOMAIN files : files[k].name \notin folder
    ELSE dict_corrected = <<>> /\ entries_current_raises

\* A write() that dumps only the keys it sets
write_drops_keys(c, files) ==
    [c EXCEPT !.files = IF files # <<>> THEN files
                        ELSE IF dict_corrected # <<>> THEN dict_corrected ELSE dict_folder,
              !.meta = "project" :> experiment(c)]

\* Files.write: the contents written, from the contents c read from disk
write(c, files) ==
    LET new_files == IF files # <<>> THEN files
                     ELSE IF dict_corrected # <<>> THEN dict_corrected ELSE dict_folder
        with_project == ("project" :> experiment(c)) @@ c.meta
        new_meta == IF foraging_id(c) # ""
                    THEN ("foraging_id" :> foraging_id(c)) @@ with_project
                    ELSE with_project
    IN  [c EXCEPT !.files = new_files, !.meta = new_meta]

\* Files.add_d2: the contents written, or c when the sorted folders are not all there
add_d2(c) ==
    IF dict_expected_d2 # dict_folder_d2 THEN c
    ELSE [c EXCEPT !.files = dict_expected_d2 @@ c.files]

\* Files.add_d0
add_d0(c) ==
    IF dict_expected_d0 # dict_folder_d0 THEN c
    ELSE [c EXCEPT !.files = dict_expected_d0 @@ c.files]

\* Files.missing_from_lims_ready_on_npexp, over the summary of make_summary_dataframes
npexp_exists(n) == IF on_z THEN n \in avail ELSE n \in folder
missing_from_lims_ready_on_npexp ==
    {dict_expected[k].name : k \in {x \in DOMAIN dict_expected :
        npexp_exists(dict_expected[x].name) /\ dict_expected[x].name \notin on_lims}}

\* Files.add_missing_d1_files
add_missing_d1_files(c) ==
    LET to_upload == [k \in {x \in DOMAIN dict_expected :
                                dict_expected[x].name \in missing_from_lims_ready_on_npexp} |->
                        dict_expected[k]]
    IN  [c EXCEPT !.files = to_upload @@ c.files]

-----------------------------------------------------------------------------
(* Initial states *)

Contents(files, meta, notes, fid_list) ==
    [json |-> TRUE, files |-> files, meta |-> meta, notes |-> notes,
     foraging_id_list |-> fid_list]

\* A file opened for writing and not yet written: no JSON in it
EmptyFile == [json |-> FALSE, files |-> <<>>, meta |-> <<>>, notes |-> <<>>,
              foraging_id_list |-> <<>>]

\* An older backup, left by an earlier run
OldBackup == Contents(<<>>, "operator" :> "older", <<>>, <<>>)

\* InsertionNotes: every probe failed to insert except those of `inserted`;
\* an inserted probe has no notes, notes with FailedToInsert 0, or notes
\* without the key
NotesFor(inserted, style) ==
    [p \in (ProbeLetters \ inserted) \cup (IF style = "absent" THEN {} ELSE inserted) |->
        IF p \notin inserted THEN [FailedToInsert |-> 1]
        ELSE IF style = "zero" THEN [FailedToInsert |-> 0]
        ELSE [Comment |-> 0]]

\* Templates of at most MaxTemplate entries, each descriptive name once
Templates ==
    {t \in UNION {[1..n -> TemplateLabels] : n \in 0..MaxTemplate} :
        \A i, j \in 1..Len(t) : i # j => t[i] # t[j]}

\* Values a `files` dict of a manifest may give a descriptive name
CurrentValues(d) ==
    IF d \in TemplateLabels THEN {TemplateFiles[d], Val("filename", OtherName)}
    ELSE IF d \in EphysSortedLabels
    THEN {Val("directory_name", SortedDir(CHOOSE p \in ProbeLetters : SortedLabel(p) = d))}
    ELSE {Val("filename", OtherName)}

\* `files` dicts of at most MaxCurrent entries
CurrentDicts ==
    UNION {{f \in [D -> UNION {CurrentValues(d) : d \in D}] :
                \A d \in D : f[d] \in CurrentValues(d)} :
           D \in {X \in SUBSET Range(LabelOrder) : Cardinality(X) <= MaxCurrent}}

NamesOf(d) == {d[k].name : k \in DOMAIN d}

HistoryInit ==
    /\ entries_corrected = <<>>
    /\ pc = "idle"
    /\ ops = 0
    /\ orig = manifest
    /\ orig_bak = bak
    /\ snap = <<>>
    /\ last = [op |-> "none", pre |-> manifest, pre_bak |-> bak, raised |-> FALSE]
    /\ log = <<>>
    /\ pass = [phases |-> <<>>, start |-> manifest, before |-> "none"]

RaceIdle ==
    /\ rpc = <<>>
    /\ rseen = <<>>
    /\ rbuf = <<>>
    /\ late_copy = FALSE

HitsIdle ==
    /\ hits = <<>>
    /\ result = -1

SearchIdle == search = [kind |-> "none"]

\* No template expanded, no origin looked up, no copy made, no object of
\* components.PlatformJson constructed
ExpansionIdle == expansion = [kind |-> "none"]
LocateIdle == locate = [kind |-> "none"]
TransferIdle == transfer = [kind |-> "none"]
PjIdle == pj = [kind |-> "none"]

StageIdle == stage = [kind |-> "none"]
WindowIdle == window = [kind |-> "none"]
ScopeIdle == scope = [kind |-> "none"]
ProbesIdle == probes = [kind |-> "none"]
SummaryIdle == summary = [kind |-> "none"]
RecheckIdle == recheck = [kind |-> "none"]
MoreIdle == StageIdle /\ WindowIdle /\ ScopeIdle /\ ProbesIdle /\ SummaryIdle /\ RecheckIdle

ExtIdle == SearchIdle /\ ExpansionIdle /\ LocateIdle /\ TransferIdle /\ PjIdle /\ MoreIdle

\* Sessions for the reconciliation pass: every template and `files` dict
\* within the bounds, every state of the data they name
InitFix ==
    /\ template \in Templates
    /\ \E f \in CurrentDicts :
         manifest = Contents(f, "operator" :> "op", NotesFor({"A"}, "absent"), <<>>)
    /\ bak = <<>>
    /\ folder \in SUBSET (NamesOf(dict_expected) \cup NamesOf(manifest.files))
    /\ avail \in SUBSET NamesOf(dict_expected)
    /\ on_lims = {}
    /\ on_z \in IF \E i \in 1..Len(template) : template[i] \in EphysRawLabels
               THEN BOOLEAN ELSE {FALSE}
    /\ ext_fid = ""
    /\ HistoryInit
    /\ RaceIdle
    /\ HitsIdle
    /\ ExtIdle

\* Sessions for the write path: a few templates and `files` dicts, every
\* shape of the other top-level keys
InitWrite ==
    /\ template \in {<<"synchronization_data">>,
                     <<RawLabel("A"), "synchronization_data">>}
    /\ \E f \in {<<>>, "synchronization_data" :> Val("filename", OtherName)},
          m \in {"operator" :> "op",
                 ("operator" :> "op") @@ ("project" :> "old_project"),
                 ("operator" :> "op") @@ ("foraging_id" :> "fid_0")
                                      @@ ("experiment" :> "exp")},
          n \in {NotesFor({}, "absent"), NotesFor({"A"}, "zero")},
          l \in {<<>>, <<"fid_1">>} :
         manifest = Contents(f, m, n, l)
    /\ bak \in {<<>>, <<OldBackup>>}
    /\ folder \in {{}, {SessionFolder \o ".sync", SessionFolder \o "_probeABC", SortedDir("A")}}
    /\ avail = {}
    /\ on_lims = {}
    /\ on_z = FALSE
    /\ ext_fid \in {"", "fid_ext"}
    /\ HistoryInit
    /\ RaceIdle
    /\ HitsIdle
    /\ ExtIdle

-----------------------------------------------------------------------------
(* The operations of Files, run by one process *)

Done(op, raised) ==
    last' = [op |-> op, pre |-> manifest, pre_bak |-> bak, raised |-> raised]

\* The write path with a backup step, shared by write() and update(): the
\* backup copy (which may fail when it is attempted), then the manifest
\* written with `new` unless `raises`.
WritePath(op, new, raises, io_ok) ==
    IF bak = <<>> /\ ~io_ok
    THEN /\ UNCHANGED <<manifest, bak, snap>>
         /\ Done(op, TRUE)
    ELSE /\ bak' = backup(bak, manifest)
         /\ snap' = Append(snap, manifest)
         /\ manifest' = IF raises THEN manifest ELSE new
         /\ Done(op, raises)

StartOp ==
    /\ pc = "idle"
    /\ ops < MaxOps
    /\ ops' = ops + 1

Env == <<avail, on_lims, template, on_z, ext_fid, orig, orig_bak>>

\* Files.fix, first phase: fix_data()
FixData ==
    /\ StartOp
    /\ folder' = fix_data.folder
    /\ entries_corrected' = entries_corrected \o fix_data.corrected
    /\ log' = fix_data.log
    /\ pass' = [phases |-> <<"fix_data">>, start |-> manifest,
                before |-> IF last.op = "none" THEN "none"
                           ELSE IF last.raised THEN "raised" ELSE "returned"]
    /\ pc' = IF fix_data.raised THEN "idle" ELSE "fix_dict"
    /\ Done("fix", fix_data.raised)
    /\ UNCHANGED <<manifest, bak, snap, Env>>
    /\ UNCHANGED <<raceVars, hitVars, extVars>>

\* Files.fix, second phase: fix_dict()
FixDict ==
    /\ pc = "fix_dict"
    /\ entries_corrected' = IF fix_dict_raises THEN entries_corrected
                            ELSE entries_corrected \o fix_dict
    /\ pass' = [pass EXCEPT !.phases = Append(@, "fix_dict")]
    /\ pc' = IF fix_dict_raises THEN "idle" ELSE "gate"
    /\ Done("fix", fix_dict_raises)
    /\ UNCHANGED <<manifest, bak, snap, folder, ops, log, Env>>
    /\ UNCHANGED <<raceVars, hitVars, extVars>>

\* Files.fix, third phase: write() when the data and the dict are correct
FixWrite ==
    /\ pc = "gate"
    /\ fix_gate
    /\ \E io_ok \in BOOLEAN :
         WritePath("fix", write(manifest, <<>>), write_raises(<<>>), io_ok)
    /\ pass' = [pass EXCEPT !.phases = Append(@, "write")]
    /\ pc' = "idle"
    /\ UNCHANGED <<folder, entries_corrected, ops, log, Env>>
    /\ UNCHANGED <<raceVars, hitVars, extVars>>

\* Files.fix ends without write()
FixSkip ==
    /\ pc = "gate"
    /\ ~fix_gate
    /\ pc' = "idle"
    /\ Done("fix", FALSE)
    /\ UNCHANGED <<manifest, bak, snap, folder, entries_corrected, ops, log, pass, Env>>
    /\ UNCHANGED <<raceVars, hitVars, extVars>>

Frame == <<folder, entries_corrected, pc, log, pass, Env>>

\* Arguments write(files) is called with
WriteArgs ==
    {"synchronization_data" :> TemplateFiles["synchronization_data"],
     "synchronization_data" :> Val("filename", OtherName)}

\* Files.write() with no argument
Write ==
    /\ StartOp
    /\ \E io_ok \in BOOLEAN :
         WritePath("write", write(manifest, <<>>), write_raises(<<>>), io_ok)
    /\ UNCHANGED Frame
    /\ UNCHANGED <<raceVars, hitVars, extVars>>

\* Files.write(files)
WriteFiles ==
    /\ StartOp
    /\ \E files \in WriteArgs, io_ok \in BOOLEAN :
         WritePath("write_files", write(manifest, files), write_raises(files), io_ok)
    /\ UNCHANGED Frame
    /\ UNCHANGED <<raceVars, hitVars, extVars>>

\* PlatformJson.update(k=v)
Update ==
    /\ StartOp
    /\ \E kv \in {<<"operator", "op2">>, <<"project", "new_project">>}, io_ok \in BOOLEAN :
         WritePath("update", update(manifest, kv[1], kv[2]), FALSE, io_ok)
    /\ UNCHANGED Frame
    /\ UNCHANGED <<raceVars, hitVars, extVars>>

\* Files.add_d2
AddD2 ==
    /\ StartOp
    /\ manifest' = add_d2(manifest)
    /\ Done("add_d2", FALSE)
    /\ UNCHANGED <<bak, snap, Frame>>
    /\ UNCHANGED <<raceVars, hitVars, extVars>>

\* Files.add_d0
AddD0 ==
    /\ StartOp
    /\ manifest' = add_d0(manifest)
    /\ Done("add_d0", FALSE)
    /\ UNCHANGED <<bak, snap, Frame>>
    /\ UNCHANGED <<raceVars, hitVars, extVars>>

\* Files.add_missing_d1_files
AddMissingD1Files ==
    /\ StartOp
    /\ manifest' = add_missing_d1_files(manifest)
    /\ Done("add_missing_d1_files", FALSE)
    /\ UNCHANGED <<bak, snap, Frame>>
    /\ UNCHANGED <<raceVars, hitVars, extVars>>

\* The two update() calls that open make_d2 and make_d0_manifest
reset_files(c) ==
    LET c1 == update(update(c, "files", <<>>), "project", experiment(c))
    IN  IF foraging_id(c1) # "" THEN update(c1, "foraging_id", foraging_id(c1)) ELSE c1

\* Files.make_d2
MakeD2 ==
    /\ StartOp
    /\ \E io_ok \in BOOLEAN :
         WritePath("make_d2", add_d2(reset_files(manifest)), FALSE, io_ok)
    /\ UNCHANGED Frame
    /\ UNCHANGED <<raceVars, hitVars, extVars>>

\* Files.make_d0_manifest
MakeD0Manifest ==
    /\ StartOp
    /\ \E io_ok \in BOOLEAN :
         WritePath("make_d0_manifest", add_d0(reset_files(manifest)), FALSE, io_ok)
    /\ UNCHANGED Frame
    /\ UNCHANGED <<raceVars, hitVars, extVars>>

NextFix ==
    \/ FixData
    \/ FixDict
    \/ FixWrite
    \/ FixSkip

Next ==
    \/ FixData
    \/ FixDict
    \/ FixWrite
    \/ FixSkip
    \/ Write
    \/ WriteFiles
    \/ Update
    \/ AddD2
    \/ AddD0
    \/ AddMissingD1Files
    \/ MakeD2
    \/ MakeD0Manifest

\* One process running operations of Files on a session, one after the other
Spec == InitWrite /\ [][Next]_vars

\* One process running reconciliation passes on a session
SpecFix == InitFix /\ [][NextFix]_vars

-----------------------------------------------------------------------------
(* Two processes on the write path of one manifest, step by step *)

Procs == {1, 2}

\* A test that never finds the backup
backup_always_missing(b) == TRUE

\* `not self.backup.exists()`, as the write path tests it
backup_missing(b) == b = <<>>

\* What a process writes, from the contents it read: process 1 calls
\* update(operator=...), process 2 calls Files.write()
rnew(p, c) == IF p = 1 THEN update(c, "operator", "op2") ELSE write(c, <<>>)

InitRace ==
    /\ template = <<>>
    /\ \E m \in {"operator" :> "op", ("operator" :> "op") @@ ("project" :> "old_project")},
          l \in {<<>>, <<"fid_1">>} :
         manifest = Contents(<<>>, m, NotesFor({}, "absent"), l)
    /\ bak = <<>>
    /\ folder = {}
    /\ avail = {}
    /\ on_lims = {}
    /\ on_z = FALSE
    /\ ext_fid = ""
    /\ HistoryInit
    /\ rpc = [p \in Procs |-> [at |-> "idle", calls |-> 0, copies |-> 0]]
    /\ rseen = [p \in Procs |-> FALSE]
    /\ rbuf = [p \in Procs |-> manifest]
    /\ late_copy = FALSE
    /\ HitsIdle
    /\ ExtIdle

RaceFrame == <<folder, avail, on_lims, template, on_z, ext_fid, entries_corrected,
               pc, ops, orig, orig_bak, snap, last, log, pass, hitVars, extVars>>

\* Some process has opened the manifest for writing, now or earlier
write_begun == manifest # orig \/ \E p \in Procs : rpc[p].at = "dump"

\* shutil.copy2(...) if not self.backup.exists(): the test
RCheck(p) ==
    /\ rpc[p].at = "idle"
    /\ rpc[p].calls < MaxCalls
    /\ rseen' = [rseen EXCEPT ![p] = ~backup_missing(bak)]
    /\ rpc' = [rpc EXCEPT ![p].at = IF backup_missing(bak) THEN "copy" ELSE "read"]
    /\ UNCHANGED <<manifest, bak, rbuf, late_copy, RaceFrame>>

\* shutil.copy2(self.path, self.backup): the copy, of whatever the manifest holds now
RCopy(p) ==
    /\ rpc[p].at = "copy"
    /\ bak' = <<manifest>>
    /\ late_copy' = (late_copy \/ write_begun)
    /\ rpc' = [rpc EXCEPT ![p].at = "read", ![p].copies = @ + 1]
    /\ UNCHANGED <<manifest, rseen, rbuf, RaceFrame>>

\* contents = self.contents
RRead(p) ==
    /\ rpc[p].at = "read"
    /\ manifest.json
    /\ rbuf' = [rbuf EXCEPT ![p] = manifest]
    /\ rpc' = [rpc EXCEPT ![p].at = "open"]
    /\ UNCHANGED <<manifest, bak, rseen, late_copy, RaceFrame>>

\* self.contents gives up on a file that holds no JSON: the call raises
RReadFails(p) ==
    /\ rpc[p].at = "read"
    /\ ~manifest.json
    /\ rpc' = [rpc EXCEPT ![p].at = "idle", ![p].calls = @ + 1]
    /\ UNCHANGED <<manifest, bak, rseen, rbuf, late_copy, RaceFrame>>

\* self.path.open('w'): the file is truncated
ROpen(p) ==
    /\ rpc[p].at = "open"
    /\ manifest' = EmptyFile
    /\ rpc' = [rpc EXCEPT ![p].at = "dump"]
    /\ UNCHANGED <<bak, rseen, rbuf, late_copy, RaceFrame>>

\* json.dump(contents, f): the new contents, or no JSON when the other
\* process has the file open for writing too
RDump(p) ==
    /\ rpc[p].at = "dump"
    /\ \/ manifest' = rnew(p, rbuf[p])
       \/ /\ \E q \in Procs \ {p} : rpc[q].at = "dump"
          /\ manifest' = EmptyFile
    /\ rpc' = [rpc EXCEPT ![p].at = "idle", ![p].calls = @ + 1]
    /\ UNCHANGED <<bak, rseen, rbuf, late_copy, RaceFrame>>

NextRace ==
    \E p \in Procs :
        \/ RCheck(p)
        \/ RCopy(p)
        \/ RRead(p)
        \/ RReadFails(p)
        \/ ROpen(p)
        \/ RDump(p)

SpecRace == InitRace /\ [][NextRace]_vars

-----------------------------------------------------------------------------
(* The tie-break of the source locator *)

RECURSIVE Sum(_)
Sum(s) == IF s = <<>> THEN 0 ELSE s[1] + Sum(Tail(s))

RECURSIVE Max(_)
Max(s) == IF Len(s) = 1 THEN s[1]
          ELSE IF s[1] >= Max(Tail(s)) THEN s[1] ELSE Max(Tail(s))

\* list.index: the first position of x in s
Index(s, x) == CHOOSE i \in 1..Len(s) : s[i] = x /\ \A j \in 1..(i - 1) : s[j] # x

\* h.stat().st_size of a file
st_size(h) == h.sizes[1]

\* dir_size: the sizes of the files under a directory, summed
dir_size(h) == Sum(h.sizes)

\* get_largest_dir: the index of the largest directory, 0 (None) when all
\* have the same size
get_largest_dir(dirs) ==
    LET dir_sizes == [i \in 1..Len(dirs) |-> dir_size(dirs[i])]
    IN  IF Len(dirs) = 1 THEN 1
        ELSE IF \A i \in 1..Len(dirs) : dir_sizes[i] = dir_sizes[1] THEN 0
        ELSE Index(dir_sizes, Max(dir_sizes))

\* A tie-break that takes the earliest hit whatever the sizes
return_first_hit(hs) == IF hs = <<>> THEN 0 ELSE 1

\* return_single_hit: the index of the hit returned, 0 for None
return_single_hit(hs) ==
    LET sizes == [i \in 1..Len(hs) |-> st_size(hs[i])]
    IN  IF hs = <<>> THEN 0
        ELSE IF Len(hs) = 1 THEN 1
        ELSE IF \A i \in 1..Len(hs) : ~hs[i].is_dir
        THEN IF \A i \in 1..Len(hs) : sizes[i] = sizes[1] THEN 1
             ELSE Index(sizes, Max(sizes))
        ELSE IF \A i \in 1..Len(hs) : hs[i].is_dir
        THEN IF get_largest_dir(hs) = 0 THEN 1 ELSE get_largest_dir(hs)
        ELSE 0

\* A file of some size, or a directory with some files under it
Hit ==
    {[is_dir |-> FALSE, sizes |-> <<n>>] : n \in 0..MaxSize}
    \cup {[is_dir |-> TRUE, sizes |-> s] :
            s \in UNION {[1..n -> 1..MaxSize] : n \in 0..MaxDirFiles}}

\* The hits of a search, sorted by creation time: hits[1] is the earliest
InitSelect ==
    /\ template = <<>>
    /\ manifest = Contents(<<>>, "operator" :> "op", NotesFor({}, "absent"), <<>>)
    /\ bak = <<>>
    /\ folder = {}
    /\ avail = {}
    /\ on_lims = {}
    /\ on_z = FALSE
    /\ ext_fid = ""
    /\ HistoryInit
    /\ RaceIdle
    /\ hits \in UNION {[1..n -> Hit] : n \in 0..MaxHits}
    /\ result = -1
    /\ ExtIdle

SelectOne ==
    /\ result = -1
    /\ result' = return_single_hit(hits)
    /\ UNCHANGED <<hits, filesVars, raceVars, extVars>>

SpecSelect == InitSelect /\ [][SelectOne]_vars

-----------------------------------------------------------------------------
(* Properties of the write path *)

\* The write-path calls that got past the backup step
WritePathCalls == Len(snap)

\* C1: starting from a manifest with no backup, after one or more calls of
\* the write path (write, update) by one process there is exactly one `.bak`,
\* its contents are the manifest's contents before the first of these calls,
\* and no later call changes it.
C1_BackupOnce ==
    (orig_bak = <<>> /\ WritePathCalls >= 1) => (Len(bak) = 1 /\ bak[1] = snap[1])

\* Two calls of the write path have run, the second on a manifest the first
\* had changed, and the `.bak` still holds the contents before the first.
C1_Witness ==
    /\ orig_bak = <<>>
    /\ WritePathCalls = 2
    /\ snap[2] # snap[1]
    /\ manifest # snap[2]
    /\ bak = <<snap[1]>>

\* C2: whenever an operation of Files / PlatformJson has changed the
\* manifest on disk, a `.bak` holding the earlier contents exists.
C2_BackupBeforeAnyChange ==
    manifest # orig => /\ bak # <<>>
                       /\ orig_bak = <<>> => bak = <<orig>>

\* The last operation was write() with no argument and returned
WroteNoArg ==
    /\ ~last.raised
    /\ \/ last.op = "write"
       \/ last.op = "fix" /\ pass.phases = <<"fix_data", "fix_dict", "write">>

\* C4 as stated: write() with no argument changes only the `files` key, every
\* other top-level key keeps its value and none is added.
C4_OnlyFilesChanges ==
    WroteNoArg => /\ manifest.meta = last.pre.meta
                  /\ manifest.notes = last.pre.notes
                  /\ manifest.foraging_id_list = last.pre.foraging_id_list

\* C4 amended: write() with no argument changes only `files`, `project` (set
\* to the experiment's project code) and `foraging_id` (set when a foraging
\* id is found); every other top-level key keeps its value and no other key
\* is added.
C4_OnlyFilesProjectForagingIdChange ==
    WroteNoArg =>
        /\ \A k \in DOMAIN last.pre.meta \ {"project", "foraging_id"} :
              k \in DOMAIN manifest.meta /\ manifest.meta[k] = last.pre.meta[k]
        /\ DOMAIN manifest.meta \subseteq DOMAIN last.pre.meta \cup {"project", "foraging_id"}
        /\ manifest.meta["project"] = experiment(last.pre)
        /\ manifest.notes = last.pre.notes
        /\ manifest.foraging_id_list = last.pre.foraging_id_list

\* write() returned on a manifest with other keys, having set a project code
\* that differs from the one the manifest held and added a foraging id
C4_Witness ==
    /\ WroteNoArg
    /\ "project" \in DOMAIN last.pre.meta
    /\ manifest.meta["project"] # last.pre.meta["project"]
    /\ "foraging_id" \in DOMAIN manifest.meta \ DOMAIN last.pre.meta
    /\ manifest.meta["operator"] = last.pre.meta["operator"]

-----------------------------------------------------------------------------
(* Properties of the reconciliation pass *)

\* fix() has run to its end and its write() has written the manifest
FixWrote ==
    /\ pc = "idle"
    /\ last.op = "fix"
    /\ ~last.raised
    /\ pass.phases = <<"fix_data", "fix_dict", "write">>

\* fix_data() has just returned
FixDataReturned == pc = "fix_dict"

\* The expected entries whose data is not in the session folder
StillIncorrect ==
    {entries_expected[i] : i \in {j \in 1..Len(entries_expected) :
                                    ~correct_data(entries_expected[j], folder)}}

\* C3: after a pass of fix() that reaches write(), every template entry whose
\* correct_data is true is in the `files` dict written, under the same
\* descriptive name and with the same {type: name} value as in the template.
C3_TemplateEntriesWritten ==
    FixWrote =>
        \A d \in DOMAIN dict_expected :
            correct_data(Entry(d, dict_expected[d]), folder) =>
                /\ d \in DOMAIN manifest.files
                /\ manifest.files[d] = dict_expected[d]

\* C6: fix() runs fix_data, then fix_dict, then write; write() is reached
\* only if every expected entry has correct data and every expected key is
\* in the current or in the corrected dict; while an expected entry lacks
\* its data the pass leaves the manifest on disk as it was.
C6_FixOrderAndGate ==
    /\ pass.phases \in {<<>>, <<"fix_data">>, <<"fix_data", "fix_dict">>,
                        <<"fix_data", "fix_dict", "write">>}
    /\ pc = "fix_dict" => pass.phases = <<"fix_data">>
    /\ pc = "gate" => pass.phases = <<"fix_data", "fix_dict">>
    /\ "write" \in Range(pass.phases) =>
          /\ StillIncorrect = {}
          /\ \/ DOMAIN dict_expected \subseteq DOMAIN pass.start.files
             \/ DOMAIN dict_expected \subseteq DOMAIN DictOf(entries_corrected)
    /\ (pass.phases # <<>> /\ StillIncorrect # {}) => manifest = pass.start

\* A pass copied the data of an entry and then wrote the manifest
C6_Witness ==
    /\ FixWrote
    /\ manifest # pass.start
    /\ \E i \in 1..Len(log) : log[i].copies = 1

\* A pass on a session with an entry whose data is not found ended without
\* reaching write()
C6_WitnessSkipped ==
    /\ pc = "idle"
    /\ pass.phases = <<"fix_data", "fix_dict">>
    /\ StillIncorrect # {}
    /\ \E i \in 1..Len(log) : log[i].copies = 1

\* C7, first part: fix_data() calls copy() once for each expected entry that
\* was not correct when visited and never for one that was.
C7_CopyOncePerIncorrectEntry ==
    FixDataReturned =>
        /\ Len(log) = Len(entries_expected)
        /\ \A i \in 1..Len(log) :
              /\ log[i].entry = entries_expected[i]
              /\ log[i].copies = IF log[i].was_correct THEN 0 ELSE 1
              /\ log[i].was_correct => correct_data(log[i].entry, folder)

\* C7: fix_data() calls copy() once for each expected entry that was not
\* correct when visited, never for a correct one; after it returns,
\* entries_missing is the expected entries whose correct_data is still false.
C7_CopyOnceThenMissing ==
    FixDataReturned =>
        /\ C7_CopyOncePerIncorrectEntry
        /\ ~entries_missing_raises
        /\ Range(entries_missing) = StillIncorrect

\* C7 without the exception: when entries_missing returns, it is the
\* expected entries whose correct_data is still false.
C7_MissingWhenItReturns ==
    (FixDataReturned /\ ~entries_missing_raises) => Range(entries_missing) = StillIncorrect

\* C8: an entry of the manifest that is not in the template and whose data
\* is in the session folder is still in the manifest after fix_dict() and
\* the write() that follows.
C8_ExtraEntriesKept ==
    FixWrote =>
        \A k \in DOMAIN pass.start.files \ DOMAIN dict_expected :
            pass.start.files[k].name \in folder =>
                /\ k \in DOMAIN manifest.files
                /\ manifest.files[k] = pass.start.files[k]

\* C8 read loosely: the data of such an entry is still named by some entry
\* of the manifest.
C8_ExtraDataStillNamed ==
    FixWrote =>
        \A k \in DOMAIN pass.start.files \ DOMAIN dict_expected :
            pass.start.files[k].name \in folder =>
                pass.start.files[k].name \in NamesOf(manifest.files)

\* The probe a descriptive name is about, "" for a name about no probe
ProbeOf(d) ==
    IF \E p \in ProbeLetters : d \in {RawLabel(p), SortedLabel(p)}
    THEN CHOOSE p \in ProbeLetters : d \in {RawLabel(p), SortedLabel(p)}
    ELSE ""

\* C9: entries_expected is the template without the entries of the probes
\* the manifest's InsertionNotes mark as failed to insert, and with every
\* other template entry.
C9_ExpectedFilteredByProbesInserted ==
    {entries_expected[i].descriptive_name : i \in 1..Len(entries_expected)} =
        {d \in Range(template) :
            ProbeOf(d) = "" \/ ProbeOf(d) \in probe_letters_inserted(manifest)}

-----------------------------------------------------------------------------
(* Properties of the write path run by two processes *)

\* C5 as stated: under any interleaving of the steps of two processes on
\* the write path, once a `.bak` exists its contents never change and are
\* the manifest's original contents.
C5_BackupIsOriginal == bak # <<>> => bak = <<orig>>

\* C5 as stated, the step form: a `.bak` that exists is not written again.
C5_BackupNeverRewritten == [][bak # <<>> => bak' = bak]_vars

\* C5 amended: each process copies to `.bak` at most once, and only after
\* its own test found no backup; a `.bak` copied before any process opened
\* the manifest for writing holds the original contents; the `.bak` holds
\* anything else only when both processes passed the test and both copied,
\* the later copy taking whatever the manifest held at that moment.
C5_BackupUnderInterleaving ==
    /\ \A p \in Procs : rpc[p].copies <= 1
    /\ \A p \in Procs : rpc[p].at = "copy" => ~rseen[p] /\ rpc[p].copies = 0
    /\ bak = <<>> => \A p \in Procs : rpc[p].copies = 0
    /\ (bak # <<>> /\ ~late_copy) => bak = <<orig>>
    /\ (bak # <<>> /\ bak # <<orig>>) => \A p \in Procs : rpc[p].copies = 1

\* Both processes passed the test, one wrote the manifest, and the copy of
\* the other replaced the `.bak` with contents that are not the original
C5_Witness ==
    /\ bak # <<>>
    /\ bak # <<orig>>
    /\ \A p \in Procs : rpc[p].copies = 1
    /\ \E p \in Procs : rpc[p].calls >= 1

-----------------------------------------------------------------------------
(* Properties of the tie-break *)

\* The size return_single_hit compares: of a file, or of all files under a directory
HitSize(h) == IF h.is_dir THEN Sum(h.sizes) ELSE h.sizes[1]

SameKind(hs) ==
    \/ \A i \in 1..Len(hs) : hs[i].is_dir
    \/ \A i \in 1..Len(hs) : ~hs[i].is_dir

\* C10: return_single_hit returns None for no hits, the hit for a single
\* hit, and for several files (or several directories, by the total size of
\* their files) the earliest hit when all sizes are equal and otherwise a hit
\* of the largest size.
C10_SelectOne ==
    result # -1 =>
        /\ hits = <<>> => result = 0
        /\ Len(hits) = 1 => result = 1
        /\ (Len(hits) > 1 /\ SameKind(hits)) =>
              IF \A i \in 1..Len(hits) : HitSize(hits[i]) = HitSize(hits[1])
              THEN result = 1
              ELSE /\ result \in 1..Len(hits)
                   /\ \A i \in 1..Len(hits) : HitSize(hits[result]) >= HitSize(hits[i])

\* Two files in the window, the later one larger: the later one is returned
C10_Witness ==
    /\ Len(hits) = 2
    /\ ~hits[1].is_dir /\ ~hits[2].is_dir
    /\ HitSize(hits[1]) < HitSize(hits[2])
    /\ result = 2

\* Two directories, the earlier one larger in total though its files are smaller
C10_WitnessDirs ==
    /\ Len(hits) = 2
    /\ hits[1].is_dir /\ hits[2].is_dir
    /\ Len(hits[1].sizes) = 2 /\ Len(hits[2].sizes) = 1
    /\ hits[1].sizes[1] < hits[2].sizes[1]
    /\ result = 1
    /\ HitSize(hits[1]) > HitSize(hits[2])

-----------------------------------------------------------------------------
(* The time-windowed search of the source locator *)

\* A Files object that takes no part: an empty session, nothing run
FilesIdle ==
    /\ template = <<>>
    /\ manifest = Contents(<<>>, "operator" :> "op", NotesFor({}, "absent"), <<>>)
    /\ bak = <<>>
    /\ folder = {}
    /\ avail = {}
    /\ on_lims = {}
    /\ on_z = FALSE
    /\ ext_fid = ""
    /\ HistoryInit

\* A path under the searched directory: its creation time in seconds, whether
\* it is a directory, whether the glob pattern matches it
SearchedPath == [t : 0..MaxTime, is_dir : BOOLEAN, matched : BOOLEAN]

\* get_created_timestamp_from_file
get_created_timestamp_from_file(m) == m.t

RECURSIVE sorted_by_created(_, _)
\* sorted(hits, key=get_created_timestamp_from_file): a stable sort of the
\* positions `idx` of the paths `ms`
sorted_by_created(ms, idx) ==
    IF idx = <<>> THEN <<>>
    ELSE LET first == CHOOSE i \in 1..Len(idx) :
                        /\ \A j \in 1..Len(idx) :
                              get_created_timestamp_from_file(ms[idx[i]])
                                <= get_created_timestamp_from_file(ms[idx[j]])
                        /\ \A j \in 1..(i - 1) :
                              get_created_timestamp_from_file(ms[idx[j]])
                                > get_created_timestamp_from_file(ms[idx[i]])
             rest == [j \in 1..(Len(idx) - 1) |-> IF j < first THEN idx[j] ELSE idx[j + 1]]
         IN  <<idx[first]>> \o sorted_by_created(ms, rest)

\* The positions 1..Len(ms) that satisfy keep, in glob order
Positions(ms, keep(_)) == SelectSeq([i \in 1..Len(ms) |-> i], keep)

\* A search whose window leaves out its two ends
get_files_created_inside(ms, start, end) ==
    sorted_by_created(ms, Positions(ms, LAMBDA i :
        /\ ms[i].matched
        /\ start < get_created_timestamp_from_file(ms[i])
        /\ get_created_timestamp_from_file(ms[i]) < end))

\* get_files_created_between: the positions of the hits, sorted by creation time
get_files_created_between(ms, start, end) ==
    sorted_by_created(ms, Positions(ms, LAMBDA i :
        /\ ms[i].matched
        /\ start <= get_created_timestamp_from_file(ms[i])
        /\ get_created_timestamp_from_file(ms[i]) <= end))

\* get_dirs_created_between
get_dirs_created_between(ms, start, end) ==
    sorted_by_created(ms, Positions(ms, LAMBDA i :
        /\ ms[i].matched
        /\ ms[i].is_dir
        /\ start <= get_created_timestamp_from_file(ms[i])
        /\ get_created_timestamp_from_file(ms[i]) <= end))

\* Searches: every list of paths within the bounds, every window that has a
\* second before its start and a second after its end
InitSearch ==
    /\ FilesIdle
    /\ RaceIdle
    /\ HitsIdle
    /\ ExpansionIdle /\ LocateIdle /\ TransferIdle /\ PjIdle /\ MoreIdle
    /\ \E k \in {"files", "dirs"},
          ms \in UNION {[1..n -> SearchedPath] : n \in 0..MaxMatches},
          a \in 1..(MaxTime - 1), b \in 1..(MaxTime - 1) :
         /\ a <= b
         /\ search = [kind |-> k, matches |-> ms, start |-> a, end |-> b,
                      done |-> FALSE, found |-> <<>>]

SearchFiles ==
    /\ search.kind = "files"
    /\ ~search.done
    /\ search' = [search EXCEPT !.done = TRUE,
                    !.found = get_files_created_between(search.matches, search.start, search.end)]
    /\ UNCHANGED <<filesVars, raceVars, hitVars, expansion, locate, transfer, pj, moreVars>>

SearchDirs ==
    /\ search.kind = "dirs"
    /\ ~search.done
    /\ search' = [search EXCEPT !.done = TRUE,
                    !.found = get_dirs_created_between(search.matches, search.start, search.end)]
    /\ UNCHANGED <<filesVars, raceVars, hitVars, expansion, locate, transfer, pj, moreVars>>

NextSearch == SearchFiles \/ SearchDirs

SpecSearch == InitSearch /\ [][NextSearch]_vars

\* The search has returned
Searched == search.kind # "none" /\ search.done

\* C11: the time-windowed search returns exactly the paths the pattern
\* matches (directories only, for the directory search) whose creation time
\* t satisfies start <= t <= end, each once, sorted by creation time.
C11_WindowClosedOnBothEnds ==
    Searched =>
        LET ms == search.matches
            f == search.found
        IN  /\ {f[i] : i \in 1..Len(f)} =
                  {i \in 1..Len(ms) : /\ ms[i].matched
                                      /\ search.kind = "dirs" => ms[i].is_dir
                                      /\ search.start <= ms[i].t
                                      /\ ms[i].t <= search.end}
            /\ \A i, j \in 1..Len(f) : i < j => f[i] # f[j] /\ ms[f[i]].t <= ms[f[j]].t

\* A path created exactly at start is returned and one created a second
\* before start is not
C11_WitnessStart ==
    /\ Searched
    /\ Len(search.matches) = 2
    /\ search.matches[1].matched /\ search.matches[1].t = search.start
    /\ search.matches[2].matched /\ search.matches[2].t = search.start - 1
    /\ search.matches[1].is_dir /\ search.matches[2].is_dir
    /\ search.start < search.end
    /\ search.found = <<1>>

\* A path created exactly at end is returned and one created a second after
\* end is not
C11_WitnessEnd ==
    /\ Searched
    /\ Len(search.matches) = 2
    /\ search.matches[1].matched /\ search.matches[1].t = search.end + 1
    /\ search.matches[2].matched /\ search.matches[2].t = search.end
    /\ ~search.matches[1].is_dir /\ ~search.matches[2].is_dir
    /\ search.kind = "files"
    /\ search.start < search.end
    /\ search.found = <<2>>

-----------------------------------------------------------------------------
(* Template expansion: Files.dict_expected and utils.files_manifest *)

\* The characters of a template's strings: the placeholder, the two quote
\* characters, and "a" for any other character
TemplateChars == {"a", "%", "'", "\""}

\* The characters of a session folder string: [lims_id]_[mouse_id]_[date]
SessionChars == {"1", "_"}

\* The strings of at most n characters of C
Strings(C, n) == UNION {[1..k -> C] : k \in 0..n}

RECURSIVE replace(_, _, _)
\* str.replace(old, new) for a one-character `old`
replace(t, old, new) ==
    IF t = <<>> THEN <<>>
    ELSE (IF Head(t) = old THEN new ELSE <<Head(t)>>) \o replace(Tail(t), old, new)

\* Is character c in the string t
InStr(c, t) == \E i \in 1..Len(t) : t[i] = c

\* repr() of a str, as str(dict) applies it to keys and values: double
\* quotes when the string holds ' and no ", single quotes otherwise, with
\* every ' escaped
repr(t) ==
    IF InStr("'", t) /\ ~InStr("\"", t)
    THEN <<"\"">> \o t \o <<"\"">>
    ELSE <<"'">> \o replace(t, "'", <<"\\", "'">>) \o <<"'">>

\* str() of the mapping {key: {"filename": name}}; "f" stands for the word filename
str_of_dict(key, name) ==
    <<"{">> \o repr(key) \o <<":", " ", "{">> \o repr(<<"f">>) \o <<":", " ">>
        \o repr(name) \o <<"}", "}">>

\* The character at position i of t
CharAt(t, i) == IF i \in 1..Len(t) THEN t[i] ELSE "EOF"

RECURSIVE json_string(_, _, _)
\* json: the string whose opening quote is just before position i; the
\* escapes \" and \\ are the ones these texts can hold
json_string(t, i, acc) ==
    IF i > Len(t) THEN [ok |-> FALSE]
    ELSE IF t[i] = "\"" THEN [ok |-> TRUE, value |-> acc, next |-> i + 1]
    ELSE IF t[i] = "\\"
    THEN IF CharAt(t, i + 1) \in {"\"", "\\"}
         THEN json_string(t, i + 2, Append(acc, t[i + 1]))
         ELSE [ok |-> FALSE]
    ELSE json_string(t, i + 1, Append(acc, t[i]))

\* json: a string starting at position i
json_value(t, i) ==
    IF CharAt(t, i) = "\"" THEN json_string(t, i + 1, <<>>) ELSE [ok |-> FALSE]

\* A json.loads that never raises
json_loads_lenient(t) ==
    [ok |-> TRUE, key |-> <<>>, type |-> <<"f">>, name |-> <<>>]

\* json.loads of a text: the mapping {key: {type: name}}, or not ok for
\* JSONDecodeError. No string of these texts holds a brace, a colon or a
\* comma, so a text json accepts has the shape str_of_dict gave it.
json_loads(t) ==
    LET k == json_value(t, 2)
        ty == IF k.ok THEN json_value(t, k.next + 3) ELSE [ok |-> FALSE]
        n == IF ty.ok THEN json_value(t, ty.next + 2) ELSE [ok |-> FALSE]
    IN  IF /\ CharAt(t, 1) = "{"
           /\ k.ok
           /\ CharAt(t, k.next) = ":" /\ CharAt(t, k.next + 1) = " "
           /\ CharAt(t, k.next + 2) = "{"
           /\ ty.ok
           /\ CharAt(t, ty.next) = ":" /\ CharAt(t, ty.next + 1) = " "
           /\ n.ok
           /\ CharAt(t, n.next) = "}" /\ CharAt(t, n.next + 1) = "}"
           /\ n.next + 1 = Len(t)
        THEN [ok |-> TRUE, key |-> k.value, type |-> ty.value, name |-> n.value]
        ELSE [ok |-> FALSE]

\* The text handed to json.loads:
\* str(template).replace('%', str(session)).replace("'", '"')
expanded_text(key, name, session) ==
    replace(replace(str_of_dict(key, name), "%", session), "'", <<"\"">>)

\* Files.dict_template / the read of utils.files_manifest: the error raised
\* when the template file of the (session_type, project) pair does not exist
template_error(kind, exists) ==
    IF exists THEN "none"
    ELSE IF kind = "files_manifest" THEN "FileNotFoundError"
    ELSE "PlatformJsonFilesTemplateNotFoundError"

\* Files.dict_expected / utils.files_manifest: the error raised and the
\* mapping returned
expand(x) ==
    LET r == json_loads(expanded_text(x.key, x.name, x.session))
    IN  IF template_error(x.kind, x.exists) # "none"
        THEN [raised |-> template_error(x.kind, x.exists), result |-> <<>>]
        ELSE IF ~r.ok THEN [raised |-> "JSONDecodeError", result |-> <<>>]
        ELSE [raised |-> "none", result |-> <<r>>]

\* Every template of one entry within the bounds, present or not, every
\* session folder string, and the three callers
InitExpand ==
    /\ FilesIdle
    /\ RaceIdle
    /\ HitsIdle
    /\ SearchIdle /\ LocateIdle /\ TransferIdle /\ PjIdle /\ MoreIdle
    /\ \E kind \in {"dict_expected", "files_manifest", "write"}, exists \in BOOLEAN,
          key \in Strings(TemplateChars, MaxKey), name \in Strings(TemplateChars, MaxStr),
          session \in Strings(SessionChars, MaxSession) :
            expansion = [kind |-> kind, exists |-> exists, key |-> key, name |-> name,
                         session |-> session, done |-> FALSE, raised |-> "none",
                         result |-> <<>>, written |-> FALSE]

ExpandFrame == <<filesVars, raceVars, hitVars, search, locate, transfer, pj, moreVars>>

\* Files.dict_expected
DictExpected ==
    /\ expansion.kind = "dict_expected"
    /\ ~expansion.done
    /\ expansion' = [expansion EXCEPT !.done = TRUE, !.raised = expand(expansion).raised,
                                      !.result = expand(expansion).result]
    /\ UNCHANGED ExpandFrame

\* utils.files_manifest
FilesManifest ==
    /\ expansion.kind = "files_manifest"
    /\ ~expansion.done
    /\ expansion' = [expansion EXCEPT !.done = TRUE, !.raised = expand(expansion).raised,
                                      !.result = expand(expansion).result]
    /\ UNCHANGED ExpandFrame

\* Files.write: dict_missing reads dict_expected before the manifest is
\* opened for writing
WriteExpanded ==
    /\ expansion.kind = "write"
    /\ ~expansion.done
    /\ expansion' = [expansion EXCEPT !.done = TRUE, !.raised = expand(expansion).raised,
                                      !.result = expand(expansion).result,
                                      !.written = (expand(expansion).raised = "none")]
    /\ UNCHANGED ExpandFrame

NextExpand == DictExpected \/ FilesManifest \/ WriteExpanded

SpecExpand == InitExpand /\ [][NextExpand]_vars

\* The expansion has returned or raised
Expanded == expansion.kind # "none" /\ expansion.done

\* The template mapping with every placeholder replaced by the session string
Substituted ==
    [ok |-> TRUE, key |-> replace(expansion.key, "%", expansion.session),
     type |-> <<"f">>, name |-> replace(expansion.name, "%", expansion.session)]

\* C12: for every template and every session folder string, the expansion
\* of a template that exists returns the template mapping with every
\* placeholder replaced by the session string and nothing else changed.
C12_ExpansionIsVerbatimSubstitution ==
    Expanded /\ expansion.exists =>
        /\ expansion.raised = "none"
        /\ expansion.result = <<Substituted>>

\* C12, for the templates it holds for: when no string of the template
\* holds a quote character the expansion is the verbatim substitution
C12_QuoteFreeTemplates ==
    /\ Expanded
    /\ expansion.exists
    /\ ~InStr("'", expansion.key \o expansion.name)
    /\ ~InStr("\"", expansion.key \o expansion.name)
    => /\ expansion.raised = "none"
       /\ expansion.result = <<Substituted>>

\* The text after substitution is structured data: no string of the
\* template holds a quote character (the session string holds none)
ValidText ==
    /\ ~InStr("'", expansion.key \o expansion.name)
    /\ ~InStr("\"", expansion.key \o expansion.name)

C13_WitnessMissing ==
    /\ Expanded
    /\ expansion.kind = "dict_expected"
    /\ ~expansion.exists
    /\ expansion.raised = "PlatformJsonFilesTemplateNotFoundError"
    /\ expansion.result = <<>>

-----------------------------------------------------------------------------
(* Entry.origin of each subclass *)

\* SurfaceImage.lims_upload_labels: 6 images, left then right of each
NumImageLabels == 12

\* The number of time-windowed searches an origin runs one after the other,
\* each handed to return_single_hit (Camstim: the search of a non-visual pkl)
SearchesOf(cls) ==
    CASE cls = "EphysRaw" -> 2
      [] cls = "Sync" -> 3
      [] cls \in {"Camstim", "VideoTracking", "VideoInfo"} -> 1
      [] OTHER -> 0

\* The hs a search of an origin can return: directories for EphysRaw,
\* files for the other classes
FoundHits(cls) ==
    {[is_dir |-> (cls = "EphysRaw"), sizes |-> <<n>>] : n \in 1..2}

\* The files of the image source created in the window: is 'left' in the
\* name, is 'right' in the name
ImageHit == [left : BOOLEAN, right : BOOLEAN]

\* Sequences of at most n elements of S
SeqUpTo(S, n) == UNION {[1..k -> S] : k \in 0..n}

\* hits[i] of a Python list: IndexError past the end
py_index(hs, i) ==
    IF i + 1 \in 1..Len(hs) THEN [raised |-> "none", path |-> <<"hit", i + 1>>]
    ELSE [raised |-> "IndexError", path |-> <<>>]

\* EphysRaw.origin, Sync.origin, Camstim.origin, VideoTracking.origin,
\* VideoInfo.origin: EphysRaw goes on to its next search when
\* return_single_hit gave None, Sync when the search had no hs
RECURSIVE origin_searches(_, _, _)
origin_searches(cls, found, i) ==
    IF i > Len(found) THEN [raised |-> "none", path |-> <<>>]
    ELSE LET single_hit == return_single_hit(found[i])
             returns == IF cls = "EphysRaw" THEN single_hit # 0
                        ELSE i = Len(found) \/ found[i] # <<>>
         IN  IF returns
             THEN [raised |-> "none",
                   path |-> IF single_hit = 0 THEN <<>> ELSE <<"search", i, single_hit>>]
             ELSE origin_searches(cls, found, i + 1)

\* SurfaceImage.origin for the entry at position img_idx0 of
\* lims_upload_labels, total the number of surface images of the template
surface_image_origin(img_idx0, total, hs) ==
    LET n == Len(hs)
        lefts == Cardinality({i \in 1..n : hs[i].left})
        rights == Cardinality({i \in 1..n : hs[i].right})
        right_labels_only == \A i \in 1..n : hs[i].right
        lefts_labels_only == \A i \in 1..n : hs[i].left
        equal_right_left_labels == lefts = rights
        side_left == img_idx0 % 2 = 0
        img_idx1 == IF img_idx0 % 2 = 1 THEN img_idx0 - 1 ELSE img_idx0 + 1
        first == py_index(hs, img_idx0)
        side_in_name == IF side_left THEN hs[img_idx0 + 1].left
                        ELSE hs[img_idx0 + 1].right
    IN  IF total = 0 THEN [raised |-> "none", path |-> <<>>]
        ELSE IF n = 0 THEN [raised |-> "none", path |-> <<>>]
        ELSE IF n = total /\ equal_right_left_labels
        THEN IF first.raised # "none" THEN first
             ELSE IF side_in_name THEN first
             ELSE py_index(hs, img_idx1)
        ELSE IF (2 * n = total /\ right_labels_only) \/ lefts_labels_only
        THEN py_index(hs, img_idx0 \div 2)
        ELSE [raised |-> "none", path |-> <<>>]

\* EphysSorted.origin, Notebook.origin, NewscaleLog.origin, Surgery.origin:
\* a path built from a name, whether or not anything is there
fixed_origin(cls, exists) ==
    CASE cls = "EphysSorted" -> [raised |-> "none", path |-> <<"npexp">>]
      [] cls = "Notebook" -> [raised |-> "none", path |-> <<"z">>]
      [] cls = "NewscaleLog" ->
            [raised |-> "none", path |-> IF exists THEN <<"log.csv">> ELSE <<>>]
      [] OTHER -> [raised |-> "none", path |-> <<>>]

SearchClasses == {"EphysRaw", "Sync", "Camstim", "VideoTracking", "VideoInfo"}
FixedClasses == {"EphysSorted", "Notebook", "NewscaleLog", "Surgery"}

\* An entry of each subclass, and every outcome of its searches within the bounds
InitOrigin ==
    /\ FilesIdle
    /\ RaceIdle
    /\ HitsIdle
    /\ SearchIdle /\ ExpansionIdle /\ TransferIdle /\ PjIdle /\ MoreIdle
    /\ \/ \E cls \in SearchClasses :
            \E found \in [1..SearchesOf(cls) -> SeqUpTo(FoundHits(cls), MaxFound)] :
                locate = [kind |-> "searches", cls |-> cls, found |-> found,
                          done |-> FALSE, raised |-> "none", path |-> <<>>]
       \/ \E img_idx0 \in 0..(NumImageLabels - 1), total \in 0..NumImageLabels,
             found \in SeqUpTo(ImageHit, MaxFound) :
                locate = [kind |-> "image", cls |-> "SurfaceImage", img_idx0 |-> img_idx0,
                          total |-> total, found |-> found,
                          done |-> FALSE, raised |-> "none", path |-> <<>>]
       \/ \E cls \in FixedClasses, exists \in BOOLEAN :
                locate = [kind |-> "fixed", cls |-> cls, exists |-> exists,
                          done |-> FALSE, raised |-> "none", path |-> <<>>]

OriginFrame == <<filesVars, raceVars, hitVars, search, expansion, transfer, pj, moreVars>>

\* entry.origin of an entry that searches its source
OriginSearches ==
    /\ locate.kind = "searches"
    /\ ~locate.done
    /\ LET r == origin_searches(locate.cls, locate.found, 1)
       IN  locate' = [locate EXCEPT !.done = TRUE, !.raised = r.raised, !.path = r.path]
    /\ UNCHANGED OriginFrame

\* SurfaceImage.origin
OriginSurfaceImage ==
    /\ locate.kind = "image"
    /\ ~locate.done
    /\ LET r == surface_image_origin(locate.img_idx0, locate.total, locate.found)
       IN  locate' = [locate EXCEPT !.done = TRUE, !.raised = r.raised, !.path = r.path]
    /\ UNCHANGED OriginFrame

\* entry.origin of an entry whose origin is a fixed place
OriginFixed ==
    /\ locate.kind = "fixed"
    /\ ~locate.done
    /\ LET r == fixed_origin(locate.cls, locate.exists)
       IN  locate' = [locate EXCEPT !.done = TRUE, !.raised = r.raised, !.path = r.path]
    /\ UNCHANGED OriginFrame

NextOrigin == OriginSearches \/ OriginSurfaceImage \/ OriginFixed

SpecOrigin == InitOrigin /\ [][NextOrigin]_vars

\* origin has returned or raised
Located == locate.kind # "none" /\ locate.done

\* No candidate exists at the source: no search has a hit, or nothing is at
\* the fixed place
NothingFound ==
    CASE locate.kind = "searches" -> \A i \in 1..Len(locate.found) : locate.found[i] = <<>>
      [] locate.kind = "image" -> locate.found = <<>>
      [] locate.kind = "fixed" -> ~locate.exists
      [] OTHER -> FALSE

\* The hs of SurfaceImage.origin match neither of its two rules as the
\* comments state them: all the pairs, or one side of every pair
MatchesNoRule ==
    /\ locate.kind = "image"
    /\ locate.found # <<>>
    /\ Len(locate.found) # locate.total
    /\ 2 * Len(locate.found) # locate.total

\* C14: for every Entry variant, origin never raises when no matching
\* candidate exists (no hit, or a hit count that matches no rule), and it
\* returns None when nothing is found.
C14_OriginNoneWhenNotFound ==
    Located =>
        /\ NothingFound \/ MatchesNoRule => locate.raised = "none"
        /\ NothingFound => locate.path = <<>>

-----------------------------------------------------------------------------
(* Entry.correct_data against the session folder *)

\* The entries whose correct_data the reconciliation pass reads
EntriesChecked == {entries_expected[i] : i \in 1..Len(entries_expected)}

\* C15 as stated: for every Entry variant and every state of the session
\* folder, correct_data is True if and only if the expected path exists.
C15_CorrectDataIffExpectedExists ==
    \A e \in EntriesChecked : correct_data(e, folder) <=> expected_data(e) \in folder

\* C15, amended: correct_data is True if and only if the expected path
\* exists, except for raw ephys data of a platform json on the Z: drive,
\* where it is True as soon as the data exists at the origin.
C15_CorrectDataIffExistsOrRawOnZ ==
    \A e \in EntriesChecked :
        correct_data(e, folder) <=>
            \/ expected_data(e) \in folder
            \/ entry_class(e) = "EphysRaw" /\ on_z /\ e.dir_or_file_name \in avail

\* fix_data() found a raw ephys entry correct whose expected path does not
\* exist, and another entry whose origin exists but whose path does not was
\* not found correct
C15_Witness ==
    /\ FixDataReturned
    /\ on_z
    /\ \E i, j \in 1..Len(log) :
          /\ log[i].was_correct
          /\ entry_class(log[i].entry) = "EphysRaw"
          /\ expected_data(log[i].entry) \notin folder
          /\ ~log[j].was_correct
          /\ entry_class(log[j].entry) # "EphysRaw"
          /\ log[j].entry.dir_or_file_name \in avail

-----------------------------------------------------------------------------
(* Entry.copy() with no source *)

\* C16: for every Entry variant, copy() called with no destination (as
\* fix_data does) when the entry has no candidate source raises no
\* exception and creates no file in the session folder.
C16_CopyWithoutSourceDoesNothing ==
    \A i \in 1..Len(log) :
        log[i].copies = 1 /\ ~log[i].sources =>
            /\ ~log[i].raised
            /\ log[i].created = {}

\* C16 for the classes that do not override what copy() does after the
\* base class returned
C16_BaseCopyWithoutSourceDoesNothing ==
    \A i \in 1..Len(log) :
        /\ log[i].copies = 1
        /\ ~log[i].sources
        /\ entry_class(log[i].entry) \notin {"SurfaceImage", "Surgery"}
        => /\ ~log[i].raised
           /\ log[i].created = {}

-----------------------------------------------------------------------------
(* Entry.copy of a file entry: the comparison with an existing destination *)

\* A regular file: its size and the md5 of its contents
File == [size : 0..MaxSize, hash : 1..MaxHash]

\* An element of Entry.sources: a path where nothing exists, the destination
\* itself, or a file
Source ==
    {[kind |-> "missing"], [kind |-> "dest"]} \cup {[kind |-> "file", file |-> f] : f \in File}

\* A comparison that looks at the sizes only
compare_sizes_only(d, f) ==
    IF d.size = 0 THEN "copy"
    ELSE IF d.size < f.size THEN "copy"
    ELSE "return"

\* The comparison of Entry.copy when source and destination are both files:
\* d the destination, f the source
compare(d, f) ==
    IF d.size = 0 THEN "copy"
    ELSE IF d.size < f.size THEN "copy"
    ELSE IF d.size = f.size
    THEN IF d.hash = f.hash THEN "return" ELSE "copy"
    ELSE "return"

RECURSIVE copy_loop(_, _, _, _, _)
\* The loop of Entry.copy over self.sources from source i on, for a file
\* entry: dest is <<>> when no file is at the destination, <<file>> otherwise;
\* stops is self.correct_data after a copy. Returns the destination, the
\* copies made (source, destination before it) and the sources left alone
\* after a comparison.
copy_loop(srcs, i, dest, copies, skipped) ==
    IF i > Len(srcs) THEN [dest |-> dest, copies |-> copies, skipped |-> skipped]
    ELSE IF srcs[i].kind \in {"missing", "dest"}
    THEN copy_loop(srcs, i + 1, dest, copies, skipped)
    ELSE IF dest # <<>> /\ compare(dest[1], srcs[i].file) = "return"
    THEN [dest |-> dest, copies |-> copies,
          skipped |-> Append(skipped, [source |-> srcs[i].file, dest |-> dest[1]])]
    ELSE IF transfer.stops
    THEN [dest |-> <<srcs[i].file>>,
          copies |-> Append(copies, [source |-> srcs[i].file, before |-> dest]),
          skipped |-> skipped]
    ELSE copy_loop(srcs, i + 1, <<srcs[i].file>>,
                   Append(copies, [source |-> srcs[i].file, before |-> dest]), skipped)

\* Every list of sources and every destination within the bounds
InitTransfer ==
    /\ FilesIdle
    /\ RaceIdle
    /\ HitsIdle
    /\ SearchIdle /\ ExpansionIdle /\ LocateIdle /\ PjIdle /\ MoreIdle
    /\ \E srcs \in SeqUpTo(Source, MaxSources), dest \in SeqUpTo(File, 1), stops \in BOOLEAN :
          transfer = [kind |-> "file", sources |-> srcs, dest |-> dest, stops |-> stops,
                      done |-> FALSE, copies |-> <<>>, skipped |-> <<>>]

\* Entry.copy(dest) of a file entry
EntryCopy ==
    /\ transfer.kind = "file"
    /\ ~transfer.done
    /\ LET r == copy_loop(transfer.sources, 1, transfer.dest, <<>>, <<>>)
       IN  transfer' = [transfer EXCEPT !.done = TRUE, !.dest = r.dest,
                                        !.copies = r.copies, !.skipped = r.skipped]
    /\ UNCHANGED <<filesVars, raceVars, hitVars, search, expansion, locate, pj, moreVars>>

SpecTransfer == InitTransfer /\ [][EntryCopy]_vars

\* C17: Entry.copy never replaces an existing destination file with a
\* strictly smaller source file, and when source and destination have the
\* same size it leaves the destination alone only if their hashes are equal.
C17_NoSmallerOverLarger ==
    transfer.kind = "file" /\ transfer.done =>
        /\ \A i \in 1..Len(transfer.copies) :
              LET c == transfer.copies[i]
              IN  c.before # <<>> => c.source.size >= c.before[1].size
        /\ \A i \in 1..Len(transfer.skipped) :
              LET k == transfer.skipped[i]
              IN  k.source.size = k.dest.size => k.source.hash = k.dest.hash

\* A larger source replaced the destination and the next, smaller source
\* was then left alone
C17_Witness ==
    /\ transfer.kind = "file" /\ transfer.done
    /\ Len(transfer.copies) = 1
    /\ transfer.copies[1].before # <<>>
    /\ transfer.copies[1].before[1].size > 0
    /\ transfer.copies[1].source.size > transfer.copies[1].before[1].size
    /\ Len(transfer.skipped) = 1
    /\ transfer.skipped[1].source.size < transfer.skipped[1].dest.size

\* A source of the size of the destination and of another hash replaced it
C17_WitnessEqualSize ==
    /\ transfer.kind = "file" /\ transfer.done
    /\ \E i \in 1..Len(transfer.copies) :
          LET c == transfer.copies[i]
          IN  /\ c.before # <<>>
              /\ c.before[1].size > 0
              /\ c.source.size = c.before[1].size
              /\ c.source.hash # c.before[1].hash

-----------------------------------------------------------------------------
(* components.PlatformJson: attribute assignment, update() and the file *)

\* Four of the model's fields, one of each kind: Optional[bool], str,
\* List[float] and Dict
Fields == {"hab", "project", "water_calibration_heights", "files"}

\* The defaults of the fields
Defaults ==
    [hab |-> "None", project |-> "", water_calibration_heights |-> <<0>>, files |-> <<>>]

\* The dicts over two keys
Dicts == UNION {[ks -> 1..MaxVal] : ks \in SUBSET {"a", "b"}}

\* The values a caller gives a field
ValuesOf(f) ==
    CASE f = "hab" -> {"None", "False", "True"}
      [] f = "project" -> {"", "p"}
      [] f = "water_calibration_heights" -> SeqUpTo({0, 1}, MaxList)
      [] OTHER -> {d \in Dicts : Cardinality(DOMAIN d) <= 1}

\* `not v` of Python
falsy(f, v) ==
    CASE f = "hab" -> v \in {"None", "False"}
      [] f = "project" -> v = ""
      [] f = "water_calibration_heights" -> v = <<>>
      [] OTHER -> DOMAIN v = {}

\* load_from_existing leaves a key of the file alone: `not v`, or a list
\* (a dict) with an element (a key) that is not truthy
skipped_on_load(f, v) ==
    \/ falsy(f, v)
    \/ f = "water_calibration_heights" /\ \E i \in 1..Len(v) : v[i] = 0

\* PlatformJson.load_from_existing: the fields after it, from the fields
\* mem and the contents of the file
load_from_existing(mem, disk) ==
    [f \in Fields |-> IF skipped_on_load(f, disk[f]) THEN mem[f] ELSE disk[f]]

\* np_config.merge(existing, new) under contextlib.suppress: the keys of new
\* over those of existing for a dict, new itself for any other value
merge(f, existing, new) ==
    IF f = "files"
    THEN [k \in DOMAIN existing \cup DOMAIN new |->
            IF k \in DOMAIN new THEN new[k] ELSE existing[k]]
    ELSE new

\* PlatformJson.__setattr__(name, value) of a field: the object and the file after it
setattr(o, disk, name, value) ==
    LET mem == IF o.file_sync THEN load_from_existing(o.mem, disk) ELSE o.mem
        set == [mem EXCEPT ![name] = value]
    IN  IF mem[name] = value
        THEN [obj |-> [mem |-> mem, file_sync |-> o.file_sync], disk |-> disk]
        ELSE [obj |-> [mem |-> set, file_sync |-> o.file_sync],
              disk |-> IF o.file_sync THEN set ELSE disk]

\* An update() that writes whatever it is given
update_always(o, disk, field, new) ==
    LET mem == load_from_existing(o.mem, disk)
        set == [mem EXCEPT ![field] = merge(field, mem[field], new)]
    IN  [obj |-> [mem |-> set, file_sync |-> TRUE], disk |-> set]

\* PlatformJson.update(field, new): the object and the file after it
\* (load_from_existing leaves file_sync True)
pj_update(o, disk, field, new) ==
    LET mem == load_from_existing(o.mem, disk)
        existing == mem[field]
        set == [mem EXCEPT ![field] = merge(field, existing, new)]
        is_false == field = "hab" /\ new = "False"
    IN  IF (falsy(field, new) /\ ~is_false) \/ existing = new
        THEN [obj |-> [mem |-> mem, file_sync |-> TRUE], disk |-> disk]
        ELSE [obj |-> [mem |-> set, file_sync |-> TRUE], disk |-> set]

\* The files an object is constructed on
InitialFiles ==
    [hab : {"None", "False", "True"}, project : {"", "p"},
     water_calibration_heights : {<<0>>, <<0, 1>>}, files : {<<>>, "a" :> 1}]

NoCall == [op |-> "none"]

\* After PlatformJson(path) on a file written earlier: the object holds what
\* load_from_existing took from the file
InitPj ==
    /\ FilesIdle
    /\ RaceIdle
    /\ HitsIdle
    /\ SearchIdle /\ ExpansionIdle /\ LocateIdle /\ TransferIdle /\ MoreIdle
    /\ \E disk \in InitialFiles :
          pj = [kind |-> "pj", disk |-> disk,
                obj |-> [mem |-> load_from_existing(Defaults, disk), file_sync |-> TRUE],
                fresh |-> <<>>, n |-> 0, last |-> NoCall, prev |-> NoCall]

PjFrame == <<filesVars, raceVars, hitVars, search, expansion, locate, transfer, moreVars>>

\* One more call is made: what it was, on what, and the state before it
Called(op, field, value) ==
    [op |-> op, field |-> field, value |-> value, file_sync |-> pj.obj.file_sync,
     mem |-> pj.obj.mem, disk |-> pj.disk]

\* pj.<name> = value
SetAttr ==
    /\ pj.kind = "pj" /\ pj.n < MaxPjOps
    /\ \E name \in Fields : \E value \in ValuesOf(name) :
          LET r == setattr(pj.obj, pj.disk, name, value)
          IN  pj' = [pj EXCEPT !.obj = r.obj, !.disk = r.disk, !.n = @ + 1,
                               !.prev = pj.last, !.last = Called("setattr", name, value)]
    /\ UNCHANGED PjFrame

\* pj.update(field, new)
PjUpdate ==
    /\ pj.kind = "pj" /\ pj.n < MaxPjOps
    /\ \E field \in Fields : \E new \in ValuesOf(field) :
          LET r == pj_update(pj.obj, pj.disk, field, new)
          IN  pj' = [pj EXCEPT !.obj = r.obj, !.disk = r.disk, !.n = @ + 1,
                               !.prev = pj.last, !.last = Called("update", field, new)]
    /\ UNCHANGED PjFrame

\* pj.file_sync = False (an excluded field: set directly)
DisableSync ==
    /\ pj.kind = "pj" /\ pj.n < MaxPjOps
    /\ pj.obj.file_sync
    /\ pj' = [pj EXCEPT !.obj.file_sync = FALSE, !.n = @ + 1,
                        !.prev = pj.last, !.last = Called("file_sync", "file_sync", "False")]
    /\ UNCHANGED PjFrame

\* Another process completes a write of one field of the file
OtherWriter ==
    /\ pj.kind = "pj" /\ pj.n < MaxPjOps
    /\ \E g \in Fields : \E value \in ValuesOf(g) :
          /\ pj.disk[g] # value
          /\ pj' = [pj EXCEPT !.disk[g] = value, !.n = @ + 1,
                              !.prev = pj.last, !.last = Called("other", g, value)]
    /\ UNCHANGED PjFrame

\* PlatformJson(path) once more, on the same path
Construct ==
    /\ pj.kind = "pj" /\ pj.n < MaxPjOps
    /\ pj.fresh = <<>>
    /\ pj' = [pj EXCEPT !.fresh = <<load_from_existing(Defaults, pj.disk)>>, !.n = @ + 1,
                        !.prev = pj.last, !.last = Called("construct", "path", "path")]
    /\ UNCHANGED PjFrame

NextPj == SetAttr \/ PjUpdate \/ DisableSync \/ OtherWriter \/ Construct

SpecPj == InitPj /\ [][NextPj]_vars

\* The last call was update(field, new)
Updated == pj.kind = "pj" /\ pj.last.op = "update"

\* An empty value: '', None, an empty dict or an empty list
EmptyValue(f, v) ==
    CASE f = "hab" -> v = "None"
      [] f = "project" -> v = ""
      [] f = "water_calibration_heights" -> Len(v) = 0
      [] OTHER -> DOMAIN v = {}

\* The value of the field of the last call once the file has been re-read
Reread == load_from_existing(pj.last.mem, pj.last.disk)[pj.last.field]

C18_WitnessMerge ==
    /\ Updated
    /\ pj.last.field = "files"
    /\ DOMAIN pj.last.mem.files = {"a"}
    /\ DOMAIN pj.last.value = {"b"}
    /\ DOMAIN pj.obj.mem.files = {"a", "b"}
    /\ pj.disk.files = pj.obj.mem.files

\* C19: after a value is assigned to a field with file sync enabled, a
\* PlatformJson constructed on the same path has that value in the field.
C19_AssignedValueReadBack ==
    /\ pj.kind = "pj"
    /\ pj.last.op = "construct"
    /\ pj.prev.op = "setattr"
    /\ pj.prev.file_sync
    => pj.fresh[1][pj.prev.field] = pj.prev.value

\* C20: an assignment or an update() of a field made after another writer
\* completed a write of a different field g leaves the other writer's value
\* of g in the file, whatever the value.
C20_OtherWritersFieldKept ==
    /\ pj.kind = "pj"
    /\ pj.prev.op = "other"
    /\ \/ pj.last.op = "update"
       \/ pj.last.op = "setattr" /\ pj.last.file_sync
    /\ pj.last.field # pj.prev.field
    => pj.disk[pj.prev.field] = pj.prev.value

\* C20 for the values load_from_existing takes from the file
C20_OtherWritersNonEmptyFieldKept ==
    /\ pj.kind = "pj"
    /\ pj.prev.op = "other"
    /\ \/ pj.last.op = "update"
       \/ pj.last.op = "setattr" /\ pj.last.file_sync
    /\ pj.last.field # pj.prev.field
    /\ ~skipped_on_load(pj.prev.field, pj.prev.value)
    => pj.disk[pj.prev.field] = pj.prev.value

-----------------------------------------------------------------------------
(* Staging mode: Files.fix() with STAGING set *)

\* The data the template expects, by name
StagedData == {"d1", "d2"}

\* A directory: the manifest and its `.bak` (<<>> when absent, <<contents>>
\* when present), the regular files and the symbolic links in it
Dir(json, bk, data, links) == [json |-> json, bak |-> bk, data |-> data, links |-> links]

\* The directory self.path.parent resolves to
Resolved(st) == st.dirs[st.path]

\* Files.remake_staging_folder, then `self.path = self.staging_folder /
\* self.path.name`: the symbolic links of the staging folder are removed,
\* and shutil.copy puts the `.bak` (if there is one) or else the manifest in
\* the staging folder under the name of the file copied
remake_staging_folder(st) ==
    LET live == st.dirs["live"]
        old == st.dirs["staging"]
        new == IF live.bak # <<>>
               THEN Dir(old.json, live.bak, old.data, {})
               ELSE Dir(live.json, old.bak, old.data, {})
    IN  [st EXCEPT !.dirs = [st.dirs EXCEPT !["staging"] = new],
                   !.path = "staging", !.pc = "staged"]

\* Files.fix_data with STAGING set: the manifest is read through self.path
\* (FileNotFoundError if it is not there); an expected entry whose data is
\* not in the resolved folder and has a source gets a symbolic link
staged_fix_data(st) ==
    LET d == Resolved(st)
        linked == {x \in StagedData : x \notin d.data \cup d.links /\ x \in st.avail}
    IN  IF d.json = <<>> THEN [st EXCEPT !.pc = "raised"]
        ELSE [st EXCEPT !.dirs[st.path].links = @ \cup linked, !.pc = "fixed"]

\* Files.correct_data in the resolved folder
staged_correct_data(st) == StagedData \subseteq Resolved(st).data \cup Resolved(st).links

\* Files.write through self.path
staged_write(st) ==
    LET d == Resolved(st)
    IN  [st EXCEPT !.dirs[st.path].bak = IF d.bak = <<>> THEN d.json ELSE d.bak,
                   !.dirs[st.path].json = <<"written">>,
                   !.pc = "done"]

\* A live session folder with or without `.bak`, and a staging folder as an
\* earlier staged run may have left it
InitStage ==
    /\ FilesIdle
    /\ RaceIdle
    /\ HitsIdle
    /\ SearchIdle /\ ExpansionIdle /\ LocateIdle /\ TransferIdle /\ PjIdle
    /\ WindowIdle /\ ScopeIdle /\ ProbesIdle /\ SummaryIdle /\ RecheckIdle
    /\ \E bk \in {<<>>, <<"original">>}, data \in SUBSET StagedData,
          sjson \in {<<>>, <<"stale">>}, sbak \in {<<>>, <<"stale">>},
          links \in SUBSET StagedData, av \in SUBSET StagedData :
            LET live == Dir(<<"manifest">>, bk, data, {})
            IN  stage = [kind |-> "stage", path |-> "live", pc |-> "start", avail |-> av,
                         dirs |-> [live |-> live, staging |-> Dir(sjson, sbak, {}, links)],
                         live0 |-> live, staging0 |-> Dir(sjson, sbak, {}, links)]

StageFrame == <<filesVars, raceVars, hitVars, search, expansion, locate, transfer, pj,
                window, scope, probes, summary, recheck>>

\* Files.fix with STAGING set: the staging branch
StageRemake ==
    /\ stage.kind = "stage" /\ stage.pc = "start"
    /\ stage' = remake_staging_folder(stage)
    /\ UNCHANGED StageFrame

\* Files.fix with STAGING set: fix_data (fix_dict changes no file)
StageFixData ==
    /\ stage.kind = "stage" /\ stage.pc = "staged"
    /\ stage' = staged_fix_data(stage)
    /\ UNCHANGED StageFrame

\* Files.fix with STAGING set: write() when the data is correct
StageWrite ==
    /\ stage.kind = "stage" /\ stage.pc = "fixed"
    /\ staged_correct_data(stage)
    /\ stage' = staged_write(stage)
    /\ UNCHANGED StageFrame

\* Files.fix with STAGING set: the data is not correct, write() is skipped
StageSkip ==
    /\ stage.kind = "stage" /\ stage.pc = "fixed"
    /\ ~staged_correct_data(stage)
    /\ stage' = [stage EXCEPT !.pc = "done"]
    /\ UNCHANGED StageFrame

NextStage == StageRemake \/ StageFixData \/ StageWrite \/ StageSkip

SpecStage == InitStage /\ [][NextStage]_vars

\* remake_staging_folder has run
Staged == stage.kind = "stage" /\ stage.pc # "start"

\* C21, the part about the live session: once the staging folder is made
\* every path resolves inside it, no regular file is created there but the
\* manifest and its `.bak`, and the live session folder is as it was.
C21_LiveSessionUntouched ==
    Staged =>
        /\ stage.path = "staging"
        /\ stage.dirs["live"] = stage.live0
        /\ stage.dirs["staging"].data = stage.staging0.data

\* C21: in staging mode, after remake_staging_folder the staging folder
\* holds the manifest under the manifest's own file name, every later read,
\* write and copy resolves inside the staging folder, copy() creates only
\* symbolic links, and nothing in the live session folder changes.
C21_StagingIsNonDestructive ==
    /\ C21_LiveSessionUntouched
    /\ stage.kind = "stage" /\ stage.pc = "staged" =>
          stage.dirs["staging"].json \in {stage.live0.json, stage.live0.bak} \ {<<>>}
    /\ stage.kind = "stage" => stage.pc # "raised"

-----------------------------------------------------------------------------
(* Summary mode: Files.print_summary and Files.make_summary_dataframes *)

\* The files a summary could touch: the manifest, its backup, the session
\* folder, the data at the source locations and on lims
Disk == [manifest |-> manifest, bak |-> bak, folder |-> folder,
         avail |-> avail, on_lims |-> on_lims]

\* What Files.print_summary reads: correct_dict, correct_data (which is also
\* correct_data_ready) and the comparison of the two D2 dicts
summary_lines ==
    [correct_dict |-> files_correct_dict,
     correct_data |-> files_correct_data,
     need_to_be_found |-> ~files_correct_data,
     d2_present |-> dict_expected_d2 = dict_folder_d2]

\* A summary that fetches the missing data before it reports
print_summary_fixing ==
    [lines |-> summary_lines, disk |-> [Disk EXCEPT !.folder = fix_data.folder]]

\* Files.print_summary: the lines printed, and the files as the call leaves
\* them (every statement of it is a property read or a print)
print_summary ==
    [lines |-> summary_lines, disk |-> Disk]

\* The rows of a summary frame: suffix, on npexp, on lims
summary_rows(es) ==
    [i \in 1..Len(es) |->
        [suffix |-> es[i].dir_or_file_name,
         on_npexp |-> npexp_exists(es[i].dir_or_file_name),
         on_lims |-> es[i].dir_or_file_name \in on_lims]]

\* Files.entries_d2
entries_d2 == EntriesOf(dict_expected_d2)

\* Files.make_summary_dataframes: d1_df and d2_df, attributes of the object,
\* and the files as the call leaves them
make_summary_dataframes ==
    [lines |-> [d1_df |-> summary_rows(entries_expected),
                d2_df |-> summary_rows(entries_d2)],
     disk |-> Disk]

\* Sessions in every state of their data, on np-exp, at the sources, on lims
InitSummary ==
    /\ template \in Templates
    /\ \E f \in CurrentDicts :
         manifest = Contents(f, "operator" :> "op", NotesFor({"A"}, "absent"), <<>>)
    /\ bak \in {<<>>, <<OldBackup>>}
    /\ folder \in SUBSET NamesOf(dict_expected)
    /\ avail \in {{}, NamesOf(dict_expected)}
    /\ on_lims \in {{}, folder}
    /\ on_z = FALSE
    /\ ext_fid = ""
    /\ HistoryInit
    /\ RaceIdle
    /\ HitsIdle
    /\ SearchIdle /\ ExpansionIdle /\ LocateIdle /\ TransferIdle /\ PjIdle
    /\ StageIdle /\ WindowIdle /\ ScopeIdle /\ ProbesIdle /\ SummaryIdle /\ RecheckIdle

\* A summary `s` has run as operation `op`
Summarised(op, s) ==
    /\ manifest' = s.disk.manifest
    /\ bak' = s.disk.bak
    /\ folder' = s.disk.folder
    /\ avail' = s.disk.avail
    /\ on_lims' = s.disk.on_lims
    /\ summary' = [kind |-> op, lines |-> s.lines, before |-> Disk]
    /\ UNCHANGED <<template, on_z, ext_fid, pc, orig, orig_bak, snap, last, log, pass>>
    /\ UNCHANGED <<raceVars, hitVars, search, expansion, locate, transfer, pj,
                   stage, window, scope, probes, recheck>>

\* Files.__init__: a new object on the session, which prints the summary
FilesInit ==
    /\ StartOp
    /\ entries_corrected' = <<>>
    /\ Summarised("init", print_summary)

\* Files.print_summary
PrintSummary ==
    /\ StartOp
    /\ Summarised("print_summary", print_summary)
    /\ UNCHANGED entries_corrected

\* Files.make_summary_dataframes
MakeSummaryDataframes ==
    /\ StartOp
    /\ Summarised("make_summary_dataframes", make_summary_dataframes)
    /\ UNCHANGED entries_corrected

NextSummary ==
    \/ FilesInit
    \/ PrintSummary
    \/ MakeSummaryDataframes
    \/ FixData
    \/ FixDict
    \/ FixWrite
    \/ FixSkip

\* Summaries and reconciliation passes on one session, in any order
SpecSummary == InitSummary /\ [][NextSummary]_vars

\* C22: a summary (print_summary, also as run on construction, and
\* make_summary_dataframes) mutates nothing on disk: the manifest, the
\* `.bak`, the files of the session folder and the data at the source
\* locations and on lims are the same after it as before, whatever the state
\* of the session.
C22_SummaryMutatesNothing ==
    [][summary' # summary => Disk' = Disk]_vars

\* A summary has run on a session with data missing from the folder and
\* available at a source, and the data is still missing
C22_Witness ==
    /\ summary.kind \in {"init", "print_summary"}
    /\ summary.lines.need_to_be_found
    /\ \E n \in avail : n \notin folder
    /\ summary.before = Disk

\* The frames have been built after a pass copied data into the folder
C22_WitnessFrames ==
    /\ summary.kind = "make_summary_dataframes"
    /\ \E i \in 1..Len(summary.lines.d1_df) : summary.lines.d1_df[i].on_npexp
    /\ log # <<>>
    /\ summary.before = Disk

-----------------------------------------------------------------------------
(* SurfaceImage.origin: the two rules *)

\* Rule 1 as stated: the hits are exactly the expected total, with as many
\* left as right labels
AllPairsFound ==
    /\ Len(locate.found) = locate.total
    /\ Cardinality({i \in 1..Len(locate.found) : locate.found[i].left})
         = Cardinality({i \in 1..Len(locate.found) : locate.found[i].right})

\* Rule 2 as stated: the hits are exactly half the expected total and all
\* labelled with one side
OneSideOfEveryPair ==
    /\ 2 * Len(locate.found) = locate.total
    /\ \/ \A i \in 1..Len(locate.found) : locate.found[i].left
       \/ \A i \in 1..Len(locate.found) : locate.found[i].right

\* SurfaceImage.origin has returned or raised on a non-empty set of hits
ImageLocated ==
    /\ locate.kind = "image"
    /\ locate.done
    /\ locate.total > 0
    /\ locate.found # <<>>

\* C23: SurfaceImage.origin returns a candidate only when the hits are
\* exactly the expected total with equal left and right counts, or exactly
\* half the expected total and all labelled with one side; for every other
\* set of hits it returns None, without raising and without picking an image.
C23_CandidateOnlyUnderTheTwoRules ==
    ImageLocated /\ ~AllPairsFound /\ ~OneSideOfEveryPair =>
        locate.raised = "none" /\ locate.path = <<>>

\* The part that holds: hits with a right-labelled or unlabelled image among
\* them that match neither rule give None
C23_MixedHitsGiveNone ==
    /\ ImageLocated /\ ~AllPairsFound /\ ~OneSideOfEveryPair
    /\ \E i \in 1..Len(locate.found) : ~locate.found[i].left
    => locate.raised = "none" /\ locate.path = <<>>

-----------------------------------------------------------------------------
(* The experiment window: Session.experiment_start / experiment_end and
   PlatformJson.exp_start / exp_end *)

\* fields_to_try of each of the four properties, in the order they are tried
experiment_start_fields ==
    <<"ExperimentStartTime", "ProbeInsertionStartTime", "CartridgeLowerTime",
      "HeadFrameEntryTime", "workflow_start_time">>
experiment_end_fields ==
    <<"workflow_complete_time", "ExperimentCompleteTime", "HeadFrameExitTime">>
exp_start_fields ==
    <<"workflow_start_time", "CartridgeLowerTime", "ExperimentStartTime",
      "ProbeInsertionStartTime">>
exp_end_fields ==
    <<"platform_json_save_time", "workflow_complete_time", "ExperimentCompleteTime">>

TimeFields == Range(experiment_start_fields) \cup Range(experiment_end_fields)
                \cup Range(exp_start_fields) \cup Range(exp_end_fields)

\* What a field of the manifest holds: nothing (''), a timestamp, or a string
\* that is not a timestamp
FieldValues == {"", "timestamp", "text"}

\* Times are seconds from midnight of the session date; the last second of
\* that day
DayEnd == 86399

\* The time a field holds when it holds a timestamp: a different second of
\* the day for every field
TimeOf(f) ==
    LET order == experiment_start_fields \o experiment_end_fields
                    \o <<"platform_json_save_time">>
    IN  60 * (CHOOSE i \in 1..Len(order) : order[i] = f)

\* The first field of fs, from position i on, that holds a non-empty value
\* ("" when there is none)
RECURSIVE first_non_empty(_, _, _)
first_non_empty(fields, fs, i) ==
    IF i > Len(fs) THEN ""
    ELSE IF fields[fs[i]] # "" THEN fs[i]
    ELSE first_non_empty(fields, fs, i + 1)

\* A search that stops at the first field holding anything, datetime or not
first_field_set(fields, fs, i) == first_non_empty(fields, fs, i)

\* The first field of fs, from position i on, that holds a datetime ("" when
\* there is none)
RECURSIVE first_datetime(_, _, _)
first_datetime(fields, fs, i) ==
    IF i > Len(fs) THEN ""
    ELSE IF fields[fs[i]] = "timestamp" THEN fs[i]
    ELSE first_datetime(fields, fs, i + 1)

Time(t, f) == [raised |-> "none", time |-> t, from |-> f]
Raised(e, f) == [raised |-> e, time |-> -1, from |-> f]

\* datetime.datetime.strptime(value, WSE_DATETIME_FORMAT) of the value of field f
strptime(fields, f) ==
    IF fields[f] = "timestamp" THEN Time(TimeOf(f), f) ELSE Raised("ValueError", f)

\* Session.experiment_start / Session.experiment_end: the first field that
\* is a datetime when the manifest is synced, else the day's first (last) second
session_window(fields, file_sync, fs, default) ==
    LET f == first_datetime(fields, fs, 1)
    IN  IF file_sync /\ f # "" THEN Time(TimeOf(f), f) ELSE Time(default, "date")

experiment_start(w) == session_window(w.fields, w.file_sync, experiment_start_fields, 0)
experiment_end(w) == session_window(w.fields, w.file_sync, experiment_end_fields, DayEnd)

\* PlatformJson.exp_start: the first non-empty field parsed, else the
\* creation time of the manifest file
exp_start(w) ==
    LET f == first_non_empty(w.fields, exp_start_fields, 1)
    IN  IF f # "" THEN strptime(w.fields, f) ELSE Time(w.ctime, "st_ctime")

\* PlatformJson.exp_end: the first non-empty field parsed, else an exception
exp_end(w) ==
    LET f == first_non_empty(w.fields, exp_end_fields, 1)
    IN  IF f # "" THEN strptime(w.fields, f)
        ELSE Raised("IncompleteInfoFromPlatformJson", "")

\* Every manifest of the field values, synced or not, created during the
\* session day or after it
InitWindow ==
    /\ FilesIdle
    /\ RaceIdle
    /\ HitsIdle
    /\ SearchIdle /\ ExpansionIdle /\ LocateIdle /\ TransferIdle /\ PjIdle
    /\ StageIdle /\ ScopeIdle /\ ProbesIdle /\ SummaryIdle /\ RecheckIdle
    /\ \E fields \in [TimeFields -> FieldValues], file_sync \in BOOLEAN,
          ctime \in {DayEnd - 1, DayEnd + 1} :
            window = [kind |-> "window", fields |-> fields, file_sync |-> file_sync,
                      ctime |-> ctime, call |-> "none", result |-> Time(-1, "")]

WindowFrame == <<filesVars, raceVars, hitVars, search, expansion, locate, transfer, pj,
                 stage, scope, probes, summary, recheck>>

Derived(call, r) ==
    /\ window.kind = "window"
    /\ window.call = "none"
    /\ window' = [window EXCEPT !.call = call, !.result = r]
    /\ UNCHANGED WindowFrame

ExperimentStart == Derived("experiment_start", experiment_start(window))
ExperimentEnd == Derived("experiment_end", experiment_end(window))
ExpStart == Derived("exp_start", exp_start(window))
ExpEnd == Derived("exp_end", exp_end(window))

NextWindow == ExperimentStart \/ ExperimentEnd \/ ExpStart \/ ExpEnd

SpecWindow == InitWindow /\ [][NextWindow]_vars

\* The fields a call tries, in its order, and whether it is a start
FieldsTried ==
    CASE window.call = "experiment_start" -> experiment_start_fields
      [] window.call = "experiment_end" -> experiment_end_fields
      [] window.call = "exp_start" -> exp_start_fields
      [] window.call = "exp_end" -> exp_end_fields
      [] OTHER -> <<>>

IsStart == window.call \in {"experiment_start", "exp_start"}
FullDay == IF IsStart THEN 0 ELSE DayEnd

\* Position i of fs is the first whose field satisfies `holds`
FirstAt(fs, i, holds(_)) ==
    /\ holds(window.fields[fs[i]])
    /\ \A j \in 1..(i - 1) : ~holds(window.fields[fs[j]])

NonEmpty(v) == v # ""
IsDatetime(v) == v = "timestamp"

\* C24 as stated: the first non-empty field of the fallback order gives the
\* bound, and when none of the fields is available the bound is that of the
\* full calendar day of the session date: 00:00:00 for the start, 23:59:59
\* for the end.
C24_FirstNonEmptyElseFullDay ==
    window.kind = "window" /\ window.call # "none" =>
        LET fs == FieldsTried
        IN  /\ \A i \in 1..Len(fs) :
                 FirstAt(fs, i, NonEmpty) /\ IsDatetime(window.fields[fs[i]]) =>
                    window.result = Time(TimeOf(fs[i]), fs[i])
            /\ (\A i \in 1..Len(fs) : window.fields[fs[i]] = "") =>
                    window.result.raised = "none" /\ window.result.time = FullDay

\* C24, amended: Session.experiment_start and experiment_end take the first
\* field of their order that holds a datetime, when the manifest is synced,
\* and otherwise the first (last) second of the session date.
\* PlatformJson.exp_start and exp_end parse the first non-empty field of
\* their order (ValueError when it is not a timestamp); with every field empty
\* exp_start is the creation time of the manifest file and exp_end raises
\* IncompleteInfoFromPlatformJson.
C24_WindowPerImplementation ==
    window.kind = "window" /\ window.call # "none" =>
        LET fs == FieldsTried
            r == window.result
        IN  IF window.call \in {"experiment_start", "experiment_end"}
            THEN /\ r.raised = "none"
                 /\ \A i \in 1..Len(fs) :
                      window.file_sync /\ FirstAt(fs, i, IsDatetime) =>
                          r.time = TimeOf(fs[i])
                 /\ (~window.file_sync \/ \A i \in 1..Len(fs) : ~IsDatetime(window.fields[fs[i]]))
                      => r.time = FullDay
            ELSE /\ \A i \in 1..Len(fs) :
                      FirstAt(fs, i, NonEmpty) =>
                          IF IsDatetime(window.fields[fs[i]])
                          THEN r.raised = "none" /\ r.time = TimeOf(fs[i])
                          ELSE r.raised = "ValueError"
                 /\ (\A i \in 1..Len(fs) : window.fields[fs[i]] = "") =>
                      IF IsStart THEN r.raised = "none" /\ r.time = window.ctime
                      ELSE r.raised = "IncompleteInfoFromPlatformJson"

\* Session.experiment_end with no end field recorded: the last second of the day
C24_Witness ==
    /\ window.kind = "window" /\ window.call = "experiment_end"
    /\ \A i \in 1..Len(experiment_end_fields) : window.fields[experiment_end_fields[i]] = ""
    /\ window.result.time = DayEnd

\* PlatformJson.exp_start falls back past an empty first field
C24_WitnessFallback ==
    /\ window.kind = "window" /\ window.call = "exp_start"
    /\ window.fields["workflow_start_time"] = ""
    /\ window.fields["CartridgeLowerTime"] = "timestamp"
    /\ window.result.time = TimeOf("CartridgeLowerTime")

\* PlatformJson.exp_end with no end field recorded
C24_WitnessRaises ==
    /\ window.kind = "window" /\ window.call = "exp_end"
    /\ window.result.raised = "IncompleteInfoFromPlatformJson"

-----------------------------------------------------------------------------
(* End to end: a template of one file entry, one candidate at the source *)

\* Sessions whose template holds one entry, of a descriptive name some Entry
\* subclass lists or of one none does; the Files object is not yet constructed
InitScenario ==
    /\ template \in {<<d>> : d \in DOMAIN TemplateFiles}
    /\ \E f \in CurrentDicts :
         manifest = Contents(f, "operator" :> "op", NotesFor({"A"}, "absent"), <<>>)
    /\ bak = <<>>
    /\ folder \in SUBSET (NamesOf(dict_expected) \cup NamesOf(manifest.files))
    /\ avail \in SUBSET NamesOf(dict_expected)
    /\ on_lims = {}
    /\ on_z = FALSE
    /\ ext_fid = ""
    /\ entries_corrected = <<>>
    /\ pc = "new"
    /\ ops = 0
    /\ orig = manifest
    /\ orig_bak = bak
    /\ snap = <<>>
    /\ last = [op |-> "none", pre |-> manifest, pre_bak |-> bak, raised |-> FALSE]
    /\ log = <<>>
    /\ pass = [phases |-> <<>>, start |-> manifest, before |-> "none"]
    /\ RaceIdle
    /\ HitsIdle
    /\ ExtIdle

\* Files(path): __init__ ends with print_summary(), whose correct_data
\* builds entries_expected
NewFiles ==
    /\ pc = "new"
    /\ pc' = IF entries_expected_raises THEN "raised" ELSE "idle"
    /\ Done("init", entries_expected_raises)
    /\ UNCHANGED <<manifest, bak, snap, folder, entries_corrected, ops, log, pass, Env>>
    /\ UNCHANGED <<raceVars, hitVars, extVars>>

NextScenario ==
    \/ NewFiles
    \/ FixData
    \/ FixDict
    \/ FixWrite
    \/ FixSkip

SpecScenario == InitScenario /\ [][NextScenario]_vars

\* The scenario: the one entry of the template is `label`, the manifest
\* lists no file, the expected file is not in the session folder and one
\* candidate is at the source
Scenario(label) ==
    /\ template = <<label>>
    /\ orig.files = <<>>
    /\ avail = {TemplateFiles[label].name}

\* A first pass on the scenario has ended, with the session folder empty when
\* it began
PassEnded ==
    /\ pc = "raised" \/ (pc = "idle" /\ last.op = "fix" /\ ops = 1)
    /\ log = <<>> \/ (log[1].copies = 1 /\ log[1].created = folder)

\* The pass came to write() and the backup copy of the manifest failed
BackupFailed ==
    /\ pass.phases = <<"fix_data", "fix_dict", "write">>
    /\ last.raised
    /\ bak = <<>>
    /\ manifest = orig

\* What the scenario promises for the entry `label`: the file was copied into
\* the session folder under its expected name, correct_data is true for the
\* entry, and the manifest written has exactly this entry in `files`
Reconciled(label) ==
    /\ ~last.raised
    /\ Len(log) = 1 /\ log[1].created = {TemplateFiles[label].name}
    /\ folder = {TemplateFiles[label].name}
    /\ correct_data(entries_expected[1], folder)
    /\ pass.phases = <<"fix_data", "fix_dict", "write">>
    /\ manifest.files = (label :> TemplateFiles[label])

\* C25 as stated: with the one template entry `sync_data` ->
\* {"filename": "%_sync.h5"} and exactly one file <session>_sync.h5 created in
\* the window at the source, a reconciliation pass copies it into the session
\* folder under that name, then reports correct_data true for it, then writes
\* a manifest whose `files` is {"sync_data": {"filename": "<session>_sync.h5"}}.
C25_SyncDataScenario ==
    Scenario("sync_data") /\ PassEnded => Reconciled("sync_data")

\* C25, amended: the scenario holds when the entry is named
\* `synchronization_data`, the descriptive name the Sync entry type lists,
\* and the backup copy of the manifest can be made.
C25_SynchronizationDataScenario ==
    Scenario("synchronization_data") /\ PassEnded =>
        Reconciled("synchronization_data") \/ BackupFailed

\* The pass has run on the scenario, from the empty folder to the manifest written
C25_Witness ==
    /\ Scenario("synchronization_data") /\ PassEnded
    /\ Reconciled("synchronization_data")
    /\ bak # <<>>

\* Files() on the scenario as stated
C25_WitnessSyncData ==
    /\ Scenario("sync_data")
    /\ pc = "raised"

-----------------------------------------------------------------------------
(* correct_data read twice *)

\* Everything on the filesystem correct_data can depend on: the session
\* folder, the data at the sources, where the manifest lives, the template
\* and the manifest (the probes inserted decide the expected sorted folders)
Filesystem == [folder |-> folder, avail |-> avail, on_z |-> on_z,
               template |-> template, manifest |-> manifest]

\* The entries of a session: those of the template and those of the manifest
\* that entry_from_dict can build
EntriesOfSession ==
    {entries_expected[i] : i \in 1..Len(entries_expected)}
        \cup {e \in Range(EntriesOf(dict_current)) : entry_class(e) # "ValueError"}

\* entry.correct_data as the caller sees it: True, False or the KeyError of
\* expected_data
read_correct_data(e) ==
    IF correct_data_raises(e) THEN "KeyError"
    ELSE IF correct_data(e, folder) THEN "True" ELSE "False"

\* Sessions of one template entry, on np-exp or on the Z drive
InitRecheck ==
    /\ template \in {<<d>> : d \in TemplateLabels}
    /\ \E f \in CurrentDicts :
         manifest = Contents(f, "operator" :> "op", NotesFor({"A"}, "absent"), <<>>)
    /\ bak = <<>>
    /\ folder \in SUBSET (NamesOf(dict_expected) \cup NamesOf(manifest.files))
    /\ avail \in SUBSET NamesOf(dict_expected)
    /\ on_lims = {}
    /\ on_z \in BOOLEAN
    /\ ext_fid = ""
    /\ HistoryInit
    /\ RaceIdle
    /\ HitsIdle
    /\ ExtIdle

RecheckFrame == <<filesVars, raceVars, hitVars, search, expansion, locate, transfer, pj,
                  stage, window, scope, probes, summary>>

\* entry.correct_data, read for the first time
CorrectData ==
    /\ recheck.kind = "none"
    /\ \E e \in EntriesOfSession :
         recheck' = [kind |-> "once", entry |-> e,
                     first |-> read_correct_data(e), at_first |-> Filesystem,
                     second |-> "", at_second |-> Filesystem]
    /\ UNCHANGED RecheckFrame

\* entry.correct_data of the same entry, read again
CorrectDataAgain ==
    /\ recheck.kind = "once"
    /\ recheck.entry \in EntriesOfSession
    /\ recheck' = [recheck EXCEPT !.kind = "twice",
                                  !.second = read_correct_data(recheck.entry),
                                  !.at_second = Filesystem]
    /\ UNCHANGED RecheckFrame

NextRecheck ==
    \/ CorrectData
    \/ CorrectDataAgain
    \/ FixData
    \/ FixDict
    \/ FixWrite
    \/ FixSkip

\* correct_data read twice, with the phases of fix() before, between or after
SpecRecheck == InitRecheck /\ [][NextRecheck]_vars

C26_WitnessChanged ==
    /\ recheck.kind = "twice"
    /\ recheck.at_first # recheck.at_second
    /\ recheck.first = "False"
    /\ recheck.second = "True"

\* An EphysRaw entry on the Z drive, read twice
C26_WitnessEphysRaw ==
    /\ recheck.kind = "twice"
    /\ entry_class(recheck.entry) = "EphysRaw"
    /\ on_z
    /\ recheck.at_first = recheck.at_second
    /\ recheck.first = "True"
    /\ recheck.entry.dir_or_file_name \notin folder

-----------------------------------------------------------------------------
(* components.PlatformJson.sync_disabled(): blocks entered and left *)

\* The callers that open a sync_disabled() block: update_from_session around
\* its updates, load_from_existing around its read, update around its
\* setattr, write around the save time
Blocks == {"update_from_session", "load_from_existing", "update", "write"}

\* sync_disabled() up to its yield
enter_block(sc, b) ==
    [sc EXCEPT !.blocks = Append(@, b),
               !.file_sync = FALSE,
               !.nested = @ \/ sc.blocks # <<>>,
               !.steps = @ + 1]

\* The body of the innermost block ends: sync_disabled() after its yield
leave_block(sc) ==
    [sc EXCEPT !.blocks = SubSeq(@, 1, Len(@) - 1),
               !.file_sync = TRUE,
               !.steps = @ + 1]

\* An exception leaves the n innermost blocks: it is thrown into each
\* generator at its yield, and the statement after the yield does not run
raise_through(sc, n) ==
    [sc EXCEPT !.blocks = SubSeq(@, 1, Len(@) - n),
               !.raised = TRUE,
               !.steps = @ + 1]

\* A new object: file_sync has its default, no block is open
InitScope ==
    /\ FilesIdle
    /\ RaceIdle
    /\ HitsIdle
    /\ SearchIdle /\ ExpansionIdle /\ LocateIdle /\ TransferIdle /\ PjIdle
    /\ StageIdle /\ WindowIdle /\ ProbesIdle /\ SummaryIdle /\ RecheckIdle
    /\ scope = [kind |-> "scope", blocks |-> <<>>, file_sync |-> TRUE,
                nested |-> FALSE, raised |-> FALSE, steps |-> 0]

ScopeFrame == <<filesVars, raceVars, hitVars, search, expansion, locate, transfer, pj,
                stage, window, probes, summary, recheck>>

\* with self.sync_disabled(): entered, at top level or inside another block
EnterBlock ==
    /\ scope.kind = "scope"
    /\ scope.steps < MaxSteps
    /\ Len(scope.blocks) < MaxDepth
    /\ \E b \in Blocks : scope' = enter_block(scope, b)
    /\ UNCHANGED ScopeFrame

\* The innermost block is left at the end of its body (or by a return)
LeaveBlock ==
    /\ scope.kind = "scope"
    /\ scope.steps < MaxSteps
    /\ scope.blocks # <<>>
    /\ scope' = leave_block(scope)
    /\ UNCHANGED ScopeFrame

\* An exception in the body of the innermost block, caught after n blocks
RaiseInBlock ==
    /\ scope.kind = "scope"
    /\ scope.steps < MaxSteps
    /\ scope.blocks # <<>>
    /\ \E n \in 1..Len(scope.blocks) : scope' = raise_through(scope, n)
    /\ UNCHANGED ScopeFrame

NextScope == EnterBlock \/ LeaveBlock \/ RaiseInBlock

SpecScope == InitScope /\ [][NextScope]_vars

\* C27: sync_disabled() is properly scoped: while a block is active
\* file_sync is False, also after nested blocks entered by
\* load_from_existing, update or write have been left, and it is True again
\* once the outermost block is left, also when it is left by an exception.
C27_SyncDisabledScoped ==
    scope.kind = "scope" =>
        /\ scope.blocks # <<>> => ~scope.file_sync
        /\ scope.blocks = <<>> => scope.file_sync

\* The part that holds: blocks that were never nested and never left by an
\* exception disable file_sync exactly while they are active
C27_SingleBlockScoped ==
    scope.kind = "scope" /\ ~scope.nested /\ ~scope.raised =>
        (scope.blocks # <<>> <=> ~scope.file_sync)

-----------------------------------------------------------------------------
(* Probes inserted: Session.probes_inserted and
   PlatformJson.probe_letters_inserted, setter then getter *)

\* The first MaxProbes letters of 'ABCDEF'
Letters == {<<"A", "B", "C", "D", "E", "F">>[i] : i \in 1..MaxProbes}

\* The notes of one probe in InsertionNotes: FailedToInsert is 0, is 1, or
\* the notes have no such key. A probe without notes is not in the dict.
NoteKinds == {"zero", "one", "nokey"}
InsertionNotes == UNION {[D -> NoteKinds] : D \in SUBSET Letters}

\* Session.probes_inserted (getter): notes.get('FailedToInsert') == 0
probes_inserted(notes) ==
    {l \in Letters : l \notin DOMAIN notes \/ notes[l] = "zero"}

\* Session.probes_inserted (setter): the notes assigned to InsertionNotes
set_probes_inserted(notes, inserted) ==
    [l \in DOMAIN notes \cup (Letters \ inserted) |->
        IF l \in DOMAIN notes /\ l \in inserted THEN "zero"
        ELSE IF l \notin DOMAIN notes THEN "one"
        ELSE notes[l]]

\* PlatformJson.probe_letters_inserted (getter): notes.get('FailedToInsert', 0) == 0
probe_letters_inserted_of(notes) ==
    {l \in Letters : l \notin DOMAIN notes \/ notes[l] \in {"zero", "nokey"}}

\* PlatformJson.probe_letters_inserted (setter) raises KeyError:
\* probe_notes['FailedToInsert'] of an inserted probe whose notes lack the key
set_probe_letters_inserted_raises(notes, inserted) ==
    \E l \in inserted : l \notin DOMAIN notes \/ notes[l] = "nokey"

\* PlatformJson.probe_letters_inserted (setter): the notes handed to update()
set_probe_letters_inserted(notes, inserted) ==
    [l \in Letters |-> IF l \in inserted THEN "zero" ELSE "one"]

\* Every prior state of the notes, every subset assigned, either class
InitProbes ==
    /\ FilesIdle
    /\ RaceIdle
    /\ HitsIdle
    /\ SearchIdle /\ ExpansionIdle /\ LocateIdle /\ TransferIdle /\ PjIdle
    /\ StageIdle /\ WindowIdle /\ ScopeIdle /\ SummaryIdle /\ RecheckIdle
    /\ \E notes \in InsertionNotes, cls \in {"Session", "PlatformJson"} :
         probes = [kind |-> "probes", cls |-> cls, prior |-> notes, notes |-> notes,
                   pc |-> "new", assigned |-> {}, raised |-> "none", read |-> {}]

ProbesFrame == <<filesVars, raceVars, hitVars, search, expansion, locate, transfer, pj,
                 stage, window, scope, summary, recheck>>

\* session.probes_inserted = inserted
SetProbesInserted ==
    /\ probes.kind = "probes" /\ probes.cls = "Session" /\ probes.pc = "new"
    /\ \E inserted \in SUBSET Letters :
         probes' = [probes EXCEPT !.pc = "assigned", !.assigned = inserted,
                                  !.notes = set_probes_inserted(probes.notes, inserted)]
    /\ UNCHANGED ProbesFrame

\* platform_json.probe_letters_inserted = inserted
SetProbeLettersInserted ==
    /\ probes.kind = "probes" /\ probes.cls = "PlatformJson" /\ probes.pc = "new"
    /\ \E inserted \in SUBSET Letters :
         probes' = IF set_probe_letters_inserted_raises(probes.notes, inserted)
                   THEN [probes EXCEPT !.pc = "assigned", !.assigned = inserted,
                                       !.raised = "KeyError"]
                   ELSE [probes EXCEPT !.pc = "assigned", !.assigned = inserted,
                                       !.notes = set_probe_letters_inserted(probes.notes, inserted)]
    /\ UNCHANGED ProbesFrame

\* The getter of the same class, read after the assignment
GetProbesInserted ==
    /\ probes.kind = "probes" /\ probes.pc = "assigned"
    /\ probes' = [probes EXCEPT !.pc = "read",
                                !.read = IF probes.cls = "Session"
                                         THEN probes_inserted(probes.notes)
                                         ELSE probe_letters_inserted_of(probes.notes)]
    /\ UNCHANGED ProbesFrame

NextProbes == SetProbesInserted \/ SetProbeLettersInserted \/ GetProbesInserted

SpecProbes == InitProbes /\ [][NextProbes]_vars

\* C28: for every subset S of the probe letters and every prior state of
\* InsertionNotes, after S is assigned to probes_inserted (Session) or
\* probe_letters_inserted (PlatformJson) the getter returns exactly S.
C28_ProbesInsertedRoundTrip ==
    probes.kind = "probes" /\ probes.pc = "read" =>
        probes.raised = "none" /\ probes.read = probes.assigned

\* The part that holds: the round trip succeeds when every probe left out
\* had no note saying it was inserted (Session) and every probe assigned had
\* notes with a FailedToInsert key (PlatformJson)
C28_RoundTripFromCleanNotes ==
    /\ probes.kind = "probes" /\ probes.pc = "read"
    /\ probes.cls = "Session" =>
          \A l \in DOMAIN probes.prior \ probes.assigned : probes.prior[l] # "zero"
    /\ probes.cls = "PlatformJson" =>
          \A l \in probes.assigned : l \in DOMAIN probes.prior /\ probes.prior[l] # "nokey"
    => probes.raised = "none" /\ probes.read = probes.assigned

-----------------------------------------------------------------------------
(* Entry.sources: the copies on np-exp and on the Z drive *)

\* A copy of the data at one location: missing, or there with a size
Copies == {[exists |-> FALSE, size |-> 0]}
            \cup {[exists |-> TRUE, size |-> n] : n \in 0..MaxSize}

\* Entry.sources: the locations offered, in order
sources(origin, npexp, z, sd9) ==
    (IF origin THEN <<"origin">> ELSE <<>>)
    \o (IF npexp.exists /\ z.exists
        THEN IF npexp.size = z.size THEN <<"npexp">>
             ELSE (IF npexp.size > z.size THEN <<"z">> ELSE <<>>)
                  \o (IF npexp.size < z.size THEN <<"npexp">> ELSE <<>>)
        ELSE IF npexp.exists THEN <<"npexp">>
        ELSE IF z.exists THEN <<"z">>
        ELSE IF sd9 THEN <<"sd9">>
        ELSE <<>>)

\* An entry with or without an origin, and every state of its copies
InitSources ==
    /\ FilesIdle
    /\ RaceIdle
    /\ HitsIdle
    /\ SearchIdle /\ ExpansionIdle /\ LocateIdle /\ PjIdle /\ MoreIdle
    /\ \E origin \in BOOLEAN, npexp \in Copies, z \in Copies, sd9 \in BOOLEAN :
         transfer = [kind |-> "sources", origin |-> origin, npexp |-> npexp, z |-> z,
                     sd9 |-> sd9, done |-> FALSE, sources |-> <<>>]

\* entry.sources
EntrySources ==
    /\ transfer.kind = "sources"
    /\ ~transfer.done
    /\ transfer' = [transfer EXCEPT
                      !.done = TRUE,
                      !.sources = sources(transfer.origin, transfer.npexp,
                                          transfer.z, transfer.sd9)]
    /\ UNCHANGED <<filesVars, raceVars, hitVars, search, expansion, locate, pj, moreVars>>

SpecSources == InitSources /\ [][EntrySources]_vars

\* sources has been read for an entry with a copy on np-exp and one on Z
BothCopies ==
    /\ transfer.kind = "sources"
    /\ transfer.done
    /\ transfer.npexp.exists
    /\ transfer.z.exists

\* C29: when copies exist both on np-exp and on the Z drive and their sizes
\* differ, Entry.sources offers the larger of the two and never the smaller;
\* when the sizes are equal it offers the np-exp copy.
C29_LargerCopyOffered ==
    BothCopies =>
        LET offered == Range(transfer.sources)
            larger == IF transfer.npexp.size >= transfer.z.size THEN "npexp" ELSE "z"
            smaller == IF larger = "npexp" THEN "z" ELSE "npexp"
        IN  larger \in offered /\ smaller \notin offered

\* The part that holds: exactly one of the two copies is offered, and at
\* equal sizes it is the one on np-exp
C29_OneCopyOffered ==
    BothCopies =>
        /\ Cardinality(Range(transfer.sources) \cap {"npexp", "z"}) = 1
        /\ transfer.npexp.size = transfer.z.size => "npexp" \in Range(transfer.sources)

-----------------------------------------------------------------------------
(* Files.fix() run twice *)

\* A second pass has ended on the session, nothing else having run
SecondPassEnded ==
    /\ ops = 2
    /\ pc = "idle"
    /\ last.op = "fix"

\* The pass that just ended changed no file: the manifest is as it was when
\* the pass began, so is the `.bak`, and no copy added to the session folder
PassChangedNothing ==
    /\ manifest = pass.start
    /\ bak = last.pre_bak
    /\ \A i \in 1..Len(log) : log[i].created = {}

\* C30: Files.fix() is idempotent: a second run after a first run that
\* returned, with no change by anyone else in between, leaves the manifest,
\* the `.bak` and the session folder as the first run left them.
C30_FixIdempotent ==
    SecondPassEnded /\ pass.before = "returned" => PassChangedNothing

\* The part that holds: the same when the manifest the first run began with
\* lists no entry under either spelling of the isi coordinates
C30_FixIdempotentWithoutIsiEntry ==
    /\ SecondPassEnded /\ pass.before = "returned"
    /\ DOMAIN orig.files \cap {"isi_registration_coordinates",
                                "isi _registration_coordinates"} = {}
    => PassChangedNothing

====
